---- MODULE Spec2Model ----
(***************************************************************************)
(* A state-machine model of the bytecode interpreter: the single-pass      *)
(* compiler (compiler.c), the object constructors (object.c), the natives  *)
(* (natives.c) and the virtual machine (vm.c).                             *)
(*                                                                         *)
(* Source text is represented by its parse structure (the sequence of      *)
(* declarations the Pratt parser walks); the compiler operators below emit *)
(* the same bytes, in the same order, as the parselets of compiler.c.      *)
(* Pointers into the value stack are absolute addresses: vm.stack is the   *)
(* base address of the current buffer and vm.stackTop, frame slots and     *)
(* open upvalue locations are addresses, so a pointer that outlives the    *)
(* buffer it was taken from is representable.                              *)
(***************************************************************************)
EXTENDS Integers, Sequences, FiniteSets, TLC

\* ---------------------------------------------------------------- bounds
\* number of interpret() calls made on one VM
MaxCalls == 2
\* number of newArray() calls made on one VM, and the largest count passed
MaxArrays == 3
MaxCount == 3

\* ------------------------------------------------------ program constants
UINT8_MAX == 255
UINT8_COUNT == UINT8_MAX + 1
UINT16_MAX == 65535
FRAMES_MAX == 256
STACK_MAX == FRAMES_MAX * UINT8_COUNT

OP_CONSTANT == 0
OP_CONSTANT_LONG == 1
OP_BYTE_NUM == 2
OP_NIL == 3
OP_TRUE == 4
OP_FALSE == 5
OP_EQ == 6
OP_GT == 7
OP_LT == 8
OP_NEQ == 9
OP_GTE == 10
OP_LTE == 11
OP_ADD == 12
OP_SUBTRACT == 13
OP_MULTIPLY == 14
OP_DIVIDE == 15
OP_SHIFT_LEFT == 16
OP_SHIFT_RIGHT == 17
OP_BIT_OR == 18
OP_BIT_XOR == 19
OP_BIT_AND == 20
OP_NEGATE == 21
OP_INVERT == 22
OP_NOT == 23
OP_DEFINE_GLOBAL == 24
OP_DEFINE_GLOBAL_LONG == 25
OP_GET_GLOBAL == 26
OP_GET_GLOBAL_LONG == 27
OP_SET_GLOBAL == 28
OP_SET_GLOBAL_LONG == 29
OP_GET_LOCAL == 30
OP_SET_LOCAL == 31
OP_GET_UPVALUE == 32
OP_SET_UPVALUE == 33
OP_GET_PROPERTY == 34
OP_GET_PROPERTY_LONG == 35
OP_SET_PROPERTY == 36
OP_SET_PROPERTY_LONG == 37
OP_GET_SUPER == 38
OP_GET_SUPER_LONG == 39
OP_SUPER_INVOKE == 40
OP_SUPER_INVOKE_LONG == 41
OP_JUMP == 42
OP_JUMP_BACKWARDS == 43
OP_JUMP_IF_FALSE == 44
OP_JUMP_IF_TRUE == 45
OP_CALL == 46
OP_INVOKE == 47
OP_INVOKE_LONG == 48
OP_CLOSURE == 49
OP_CLOSURE_LONG == 50
OP_CLOSE_UPVALUE == 51
OP_RETURN == 52
OP_RETURN_NIL == 53
OP_SUBSCRIPT == 54
OP_SUBSCRIPT_ASSIGN == 55
OP_NEW_ARRAY == 56
OP_CLASS == 57
OP_CLASS_LONG == 58
OP_INHERIT == 59
OP_METHOD == 60
OP_METHOD_LONG == 61
OP_PRINT == 62
OP_POP == 63

\* ------------------------------------------------------------------ Value
NIL_VAL == [type |-> "nil", as |-> 0]
BOOL_VAL(b) == [type |-> "bool", as |-> IF b THEN 1 ELSE 0]
NUMBER_VAL(n) == [type |-> "number", as |-> n]
OBJ_VAL(r) == [type |-> "obj", as |-> r]
INT_VAL(n) == [type |-> "int", as |-> n]
\* the null-object sentinel: an object value holding the NULL pointer
NULL_VAL == OBJ_VAL(0)
\* content of a stack cell that was never written since its buffer was allocated
UNINIT == [type |-> "uninit", as |-> 0]

IS_BOOL(v) == v.type = "bool"
IS_NIL(v) == v.type = "nil"
IS_NUMBER(v) == v.type = "number"
IS_OBJ(v) == v.type = "obj"
IS_NULL(v) == IS_OBJ(v) /\ v.as = 0
AS_BOOL(v) == v.as = 1
AS_NUMBER(v) == v.as
AS_OBJ(v) == v.as

\* addresses malloc may return for the value-stack buffer (two disjoint blocks)
Bases == {0, 2 * STACK_MAX}
\* values an indeterminate read may produce
Garbage == {NIL_VAL, NUMBER_VAL(0)}
\* the nondeterministic inputs of one step: the value an indeterminate read
\* yields and the address the allocator returns for a new stack buffer
Choices == [g : Garbage, base : Bases]

\* ------------------------------------------------------------------ Table
\* A table keyed by interned-string identity is a function from the string
\* objects' references to values.
EmptyTable == [k \in {} |-> NIL_VAL]
tableHas(t, k) == k \in DOMAIN t
tableGet(t, k) == t[k]
tableSet(t, k, v) == [x \in (DOMAIN t) \cup {k} |-> IF x = k THEN v ELSE t[x]]
tableDelete(t, k) == [x \in (DOMAIN t) \ {k} |-> t[x]]
tableAddAll(from, to) ==
    [x \in (DOMAIN from) \cup (DOMAIN to) |-> IF x \in DOMAIN from THEN from[x] ELSE to[x]]

\* ------------------------------------------------------------- heap access
OBJ_TYPE(vm, v) == vm.heap[v.as].type
IsObjType(vm, v, t) == IS_OBJ(v) /\ v.as \in 1..Len(vm.heap) /\ vm.heap[v.as].type = t
IS_STRING(vm, v) == IsObjType(vm, v, "string")
IS_INSTANCE(vm, v) == IsObjType(vm, v, "instance")
IS_CLASS(vm, v) == IsObjType(vm, v, "class")

\* the first length bytes of a buffer
Bytes(chars, length) == SubSeq(chars, 1, length)
\* the content of a string object: the length bytes at chars
Content(vm, r) == Bytes(vm.heap[r].chars, vm.heap[r].length)

\* the interned string of that length whose bytes are the first length bytes at chars
tableFindString(vm, chars, length) ==
    LET hits == {r \in DOMAIN vm.strings :
                    vm.heap[r].length = length /\ Content(vm, r) = Bytes(chars, length)}
    IN IF hits = {} THEN 0 ELSE CHOOSE r \in hits : TRUE

\* ------------------------------------------------------------ value stack
StackIdx(vm, p) == p - vm.stack
InBuffer(vm, p) == StackIdx(vm, p) >= 0 /\ StackIdx(vm, p) < STACK_MAX

\* *p for a Value* p; a cell outside the buffer or never written is indeterminate
ReadAt(vm, p, g) ==
    LET i == StackIdx(vm, p)
    IN IF i >= 0 /\ i < Len(vm.cells) /\ vm.cells[i + 1] # UNINIT THEN vm.cells[i + 1] ELSE g

\* *p = v; a store outside the buffer lands in memory this model does not hold
WriteAt(vm, p, v) ==
    LET i == StackIdx(vm, p)
        n == Len(vm.cells)
    IN IF ~InBuffer(vm, p) THEN [vm EXCEPT !.ub = TRUE]
       ELSE IF i < n THEN [vm EXCEPT !.cells[i + 1] = v]
       ELSE [vm EXCEPT !.cells = @ \o [k \in 1..(i - n) |-> UNINIT] \o <<v>>]

push(vm, value) == [WriteAt(vm, vm.stackTop, value) EXCEPT !.stackTop = @ + 1]

\* pop() as a state change; the value it returns is peek(vm, 0, g) of the state before
pop(vm) == [vm EXCEPT !.stackTop = @ - 1, !.ub = @ \/ ~InBuffer(vm, vm.stackTop - 1)]

peek(vm, distance, g) == ReadAt(vm, vm.stackTop - 1 - distance, g)

\* the live part of the stack, bottom first
LiveStack(vm) == [i \in 1..(vm.stackTop - vm.stack) |-> ReadAt(vm, vm.stack + i - 1, UNINIT)]

\* --------------------------------------------------------------- object.c
allocateObject(vm, obj) == [vm EXCEPT !.heap = Append(@, obj)]
NewRef(vm) == Len(vm.heap) + 1

\* chars is the buffer up to its terminating NUL, length the length field
allocateString(vm, chars, length) ==
    LET r == NewRef(vm)
        v1 == allocateObject(vm, [type |-> "string", chars |-> chars, length |-> length])
        v2 == push(v1, OBJ_VAL(r))
        v3 == [v2 EXCEPT !.strings = tableSet(@, r, NIL_VAL)]
    IN [vm |-> pop(v3), ref |-> r]

\* a takeString that never looks the content up
takeStringFresh(vm, chars, length) == allocateString(vm, chars, length)

\* takes the buffer chars as it is, with the length the caller gives
takeString(vm, chars, length) ==
    LET interned == tableFindString(vm, chars, length)
    IN IF interned # 0 THEN [vm |-> vm, ref |-> interned] ELSE allocateString(vm, chars, length)

\* copyString(chars, length) for the text chars of length Len(chars): the copy
\* holds these bytes and the terminator
copyString(vm, chars) ==
    LET interned == tableFindString(vm, chars, Len(chars))
    IN IF interned # 0 THEN [vm |-> vm, ref |-> interned] ELSE allocateString(vm, chars, Len(chars))

newBoundMethod(vm, reciever, method) ==
    allocateObject(vm, [type |-> "bound_method", reciever |-> reciever, method |-> method])

newClass(vm, name) == allocateObject(vm, [type |-> "class", name |-> name, methods |-> EmptyTable])

newClosure(vm, function) ==
    allocateObject(vm, [type |-> "closure", function |-> function,
                        upvalues |-> [i \in 1..vm.heap[function].upvalueCount |-> 0]])

\* targets is a history of the compilation and no field of ObjFunction: for
\* the offset of each jump instruction, the offset the compiler meant it for
newFunction(vm) ==
    allocateObject(vm, [type |-> "function", arity |-> 0, upvalueCount |-> 0, name |-> 0,
                        code |-> <<>>, constants |-> <<>>, targets |-> [k \in {} |-> 0]])

newInstance(vm, klass) ==
    allocateObject(vm, [type |-> "instance", klass |-> klass, fields |-> EmptyTable])

\* newArray(count) up to GROW_ARRAY(Value, array->array.values, 0, count): the
\* object is on the all-objects list with count and capacity set and no
\* element storage
newArrayAllocating(vm, count) ==
    allocateObject(vm, [type |-> "array", count |-> count, capacity |-> count, values |-> <<>>])

\* newArray from the return of GROW_ARRAY: count slots nobody has written
newArrayGrown(vm) ==
    [vm EXCEPT !.heap[Len(vm.heap)].values = [i \in 1..vm.heap[Len(vm.heap)].count |-> UNINIT]]

newArray(vm, count) == newArrayGrown(newArrayAllocating(vm, count))

newNative(vm, function) == allocateObject(vm, [type |-> "native", function |-> function])

newUpvalue(vm, slot) ==
    allocateObject(vm, [type |-> "upvalue", isClosed |-> FALSE, location |-> slot,
                        closed |-> NIL_VAL, next |-> 0])

\* ------------------------------------------------------------- compiler.c
\* The compiler state: the VM it allocates in, the parser's error flags,
\* the chain of Compiler records (current is the last), the chain of
\* ClassCompiler records, and the content of the memory just below
\* Compiler.loops that loopTop addresses while no loop is open.
\*   Compiler: function, type, locals, loops, loopTop, upvalues, scopeDepth, strings
\*   (loopTop is the index of the top Loop in loops[], -1 for loops - 1)
\* ret is the value the compiler function called last returned: a constant
\* index, the offset of a jump operand, a resolved slot, a finished function.
current(c) == c.chain[Len(c.chain)]
currentChunk(c) == c.vm.heap[current(c).function]
chunkCount(c) == Len(currentChunk(c).code)

\* an errorAt that reports in panic mode too
errorAtLoud(c, message) ==
    [c EXCEPT !.panicMode = TRUE, !.hadError = TRUE,
              !.vm.err = Append(@, [msg |-> message, trace |-> <<>>])]

errorAt(c, message) ==
    IF c.panicMode THEN c
    ELSE [c EXCEPT !.panicMode = TRUE, !.hadError = TRUE,
                   !.vm.err = Append(@, [msg |-> message, trace |-> <<>>])]

error(c, message) == errorAt(c, message)

\* the compiler state c has been computed (always true; the test fixes the
\* order of evaluation: what was compiled so far, before what follows)
Compiled(c) == c.hadError \in BOOLEAN

emitByte(c, byte) == [c EXCEPT !.vm.heap[current(c).function].code = Append(@, byte)]

emitBytes(c, byte1, byte2) == emitByte(emitByte(c, byte1), byte2)

emitLongBytes(c, byte, shortVal) ==
    emitByte(emitByte(emitByte(c, byte), (shortVal \div 256) % 256), shortVal % 256)

Returning(c, value) == [c EXCEPT !.ret = value]

\* emitLoop after its emitByte(OP_JUMP_BACKWARDS)
emitLoopOffset(c, loopStart) ==
    IF ~Compiled(c) THEN c ELSE
    emitBytes(IF chunkCount(c) - loopStart + 2 > UINT16_MAX
              THEN error(c, "Loop body too large.") ELSE c,
              ((chunkCount(c) - loopStart + 2) \div 256) % 256,
              (chunkCount(c) - loopStart + 2) % 256)

\* the compiler means the jump instruction at offset at for the offset target
noteTarget(c, at, target) ==
    [c EXCEPT !.vm.heap[current(c).function].targets =
                  [k \in (DOMAIN @) \cup {at} |-> IF k = at THEN target ELSE @[k]]]

emitLoop(c, loopStart) ==
    IF ~Compiled(c) THEN c ELSE
    noteTarget(emitLoopOffset(emitByte(c, OP_JUMP_BACKWARDS), loopStart), chunkCount(c), loopStart)

\* return currentChunk()->count - 2 of emitJump
jumpOperand(c) == IF Compiled(c) THEN Returning(c, chunkCount(c) - 2) ELSE c

emitJump(c, instruction) == jumpOperand(emitByte(emitByte(emitByte(c, instruction), 255), 255))

\* emitReturn without the initializer's  OP_GET_LOCAL 0; OP_RETURN
emitReturnNil(c) ==
    emitByte(c, OP_RETURN_NIL)

emitReturn(c) ==
    IF current(c).type = "TYPE_INITIALIZER"
    THEN emitByte(emitBytes(c, OP_GET_LOCAL, 0), OP_RETURN)
    ELSE emitByte(c, OP_RETURN_NIL)

\* addConstant(currentChunk(), value)
addConstant(c, value) == [c EXCEPT !.vm.heap[current(c).function].constants = Append(@, value)]

\* makeConstant after addConstant returned constant
madeConstant(c, value, constant) ==
    IF constant > UINT16_MAX
    THEN Returning(error(c, "Too many constants in one chunk. (max is 65536)"), 0)
    ELSE IF IS_STRING(c.vm, value)
         THEN [c EXCEPT !.chain[Len(c.chain)].strings = tableSet(@, value.as, INT_VAL(constant)),
                        !.ret = constant]
         ELSE Returning(c, constant)

makeConstant(c, value) ==
    IF IS_STRING(c.vm, value) /\ tableHas(current(c).strings, value.as)
    THEN Returning(c, tableGet(current(c).strings, value.as).as)
    ELSE madeConstant(addConstant(c, value), value, Len(currentChunk(c).constants))

\* an emitConstantOperator that still takes the short form for index UINT8_MAX + 1
emitConstantOperatorLate(c, id, shortCode, longCode) ==
    IF id <= UINT8_MAX + 1 THEN emitBytes(c, shortCode, id % (UINT8_MAX + 1))
    ELSE emitLongBytes(c, longCode, id)

emitConstantOperator(c, id, shortCode, longCode) ==
    IF id <= UINT8_MAX THEN emitBytes(c, shortCode, id) ELSE emitLongBytes(c, longCode, id)

\* emitConstantOperator on the index that was just returned
emitOperator(c, shortCode, longCode) == emitConstantOperator(c, c.ret, shortCode, longCode)

emitConstant(c, value) == emitOperator(makeConstant(c, value), OP_CONSTANT, OP_CONSTANT_LONG)

\* the two stores of patchJump
writeJump(c, offset, jump) ==
    [c EXCEPT !.vm.heap[current(c).function].code[offset + 1] = (jump \div 256) % 256,
              !.vm.heap[current(c).function].code[offset + 2] = jump % 256]

\* a patchJump that counts the jump from the operand instead of from behind it
patchJumpWide(c, offset) ==
    IF ~Compiled(c) THEN c ELSE
    noteTarget(writeJump(IF chunkCount(c) - offset > UINT16_MAX
                         THEN error(c, "Too much code to jump over.") ELSE c,
                         offset, chunkCount(c) - offset),
               offset - 1, chunkCount(c))

patchJump(c, offset) ==
    IF ~Compiled(c) THEN c ELSE
    noteTarget(writeJump(IF chunkCount(c) - offset - 2 > UINT16_MAX
                         THEN error(c, "Too much code to jump over.") ELSE c,
                         offset, chunkCount(c) - offset - 2),
               offset - 1, chunkCount(c))

\* copyString called from the compiler: the string is the returned value
copied(c, cs) == [c EXCEPT !.vm = cs.vm, !.ret = cs.ref]
copyName(c, name) == copied(c, copyString(c.vm, name))

\* current->function->name = the string just copied
nameFunction(c) == [c EXCEPT !.vm.heap[current(c).function].name = c.ret]

\* initCompiler apart from the function's name: the new compiler is current
enterCompiler(c, type) ==
    [c EXCEPT !.vm = newFunction(c.vm),
              !.chain = Append(@, [function |-> NewRef(c.vm), type |-> type,
                                   locals |-> << [name |-> IF type # "TYPE_FUNCTION"
                                                           THEN "this" ELSE "",
                                                  depth |-> 0, isCaptured |-> FALSE] >>,
                                   loops |-> <<>>, loopTop |-> -1,
                                   upvalues |-> <<>>, scopeDepth |-> 0,
                                   strings |-> EmptyTable])]

\* name is the previous token's text, the function's name unless type is TYPE_SCRIPT
initCompiler(c, type, name) ==
    IF type # "TYPE_SCRIPT" THEN nameFunction(copyName(enterCompiler(c, type), name))
    ELSE enterCompiler(c, type)

\* endCompiler after emitReturn: returns the finished function (with the
\* finished compiler's upvalues) and makes the enclosing compiler current
leaveCompiler(c) ==
    [c EXCEPT !.chain = SubSeq(@, 1, Len(@) - 1),
              !.ret = [function |-> current(c).function, upvalues |-> current(c).upvalues]]

endCompiler(c) == leaveCompiler(emitReturn(c))

beginScope(c) == [c EXCEPT !.chain[Len(c.chain)].scopeDepth = @ + 1]

\* one turn of the loop of endScope
endLocal(c) ==
    [emitByte(c, IF current(c).locals[Len(current(c).locals)].isCaptured
                 THEN OP_CLOSE_UPVALUE ELSE OP_POP)
        EXCEPT !.chain[Len(c.chain)].locals = SubSeq(@, 1, Len(@) - 1)]

RECURSIVE endScopeLoop(_)
endScopeLoop(c) ==
    IF Len(current(c).locals) > 0
       /\ current(c).locals[Len(current(c).locals)].depth > current(c).scopeDepth
    THEN endScopeLoop(endLocal(c))
    ELSE c

endScope(c) == endScopeLoop([c EXCEPT !.chain[Len(c.chain)].scopeDepth = @ - 1])

\* makeConstant(OBJ_VAL(the string just copied))
stringConstant(c) == makeConstant(c, OBJ_VAL(c.ret))

identifierConstant(c, name) == IF Compiled(c) THEN stringConstant(copyName(c, name)) ELSE c

\* index of the innermost local called name in compiler, or -1
LocalIndex(compiler, name) ==
    LET hits == {i \in 1..Len(compiler.locals) : compiler.locals[i].name = name}
    IN IF hits = {} THEN -1 ELSE (CHOOSE i \in hits : \A j \in hits : j <= i) - 1

\* resolveLocal in the compiler at position level of the chain
resolveLocal(c, level, name) ==
    Returning(IF LocalIndex(c.chain[level], name) # -1
                 /\ c.chain[level].locals[LocalIndex(c.chain[level], name) + 1].depth = -1
              THEN error(c, "Can't read local variable in its own initializer.")
              ELSE c,
              LocalIndex(c.chain[level], name))

\* the upvalues of the compiler at level that already name (index, isLocal)
UpvalueHits(c, level, index, isLocal) ==
    {i \in 1..c.vm.heap[c.chain[level].function].upvalueCount :
        c.chain[level].upvalues[i].index = index /\ c.chain[level].upvalues[i].isLocal = isLocal}

addUpvalue(c, level, index, isLocal) ==
    IF UpvalueHits(c, level, index, isLocal) # {}
    THEN Returning(c, (CHOOSE i \in UpvalueHits(c, level, index, isLocal) :
                          \A j \in UpvalueHits(c, level, index, isLocal) : i <= j) - 1)
    ELSE IF c.vm.heap[c.chain[level].function].upvalueCount = UINT8_COUNT
         THEN Returning(error(c, "Too many closure variables in function"), 0)
         ELSE [c EXCEPT !.chain[level].upvalues = Append(@, [index |-> index, isLocal |-> isLocal]),
                        !.vm.heap[c.chain[level].function].upvalueCount = @ + 1,
                        !.ret = c.vm.heap[c.chain[level].function].upvalueCount]

RECURSIVE resolveUpvalue(_, _, _), enclosingLocal(_, _, _)
\* resolveUpvalue after resolveUpvalue(compiler->enclosing, name) returned
enclosingUpvalue(c, level) ==
    IF c.ret # -1 THEN addUpvalue(c, level, c.ret, FALSE) ELSE Returning(c, -1)

\* resolveUpvalue after resolveLocal(compiler->enclosing, name) returned
enclosingLocal(c, level, name) ==
    IF c.ret # -1
    THEN addUpvalue([c EXCEPT !.chain[level - 1].locals[c.ret + 1].isCaptured = TRUE],
                    level, c.ret, TRUE)
    ELSE enclosingUpvalue(resolveUpvalue(c, level - 1, name), level)

resolveUpvalue(c, level, name) ==
    IF level = 1 THEN Returning(c, -1)
    ELSE enclosingLocal(resolveLocal(c, level - 1, name), level, name)

addLocal(c, name) ==
    IF Len(current(c).locals) = UINT8_COUNT
    THEN error(c, "Too many local variabls in function.")
    ELSE [c EXCEPT !.chain[Len(c.chain)].locals =
                       Append(@, [name |-> name, depth |-> -1, isCaptured |-> FALSE])]

\* the locals the duplicate check of declareVariable stops at: those of an
\* enclosing scope
Enclosing(compiler) ==
    {i \in 1..Len(compiler.locals) :
        compiler.locals[i].depth # -1 /\ compiler.locals[i].depth < compiler.scopeDepth}
\* the names the check visits: those of the locals i and below, backwards up
\* to the first one that belongs to an enclosing scope
DeclaredAbove(compiler, i, enclosing) ==
    {compiler.locals[k].name : k \in {k \in 1..i : \A e \in enclosing : e < k}}
DeclaredInScope(compiler, i) == DeclaredAbove(compiler, i, Enclosing(compiler))

declareVariable(c, name) ==
    IF current(c).scopeDepth = 0 THEN c
    ELSE addLocal(IF name \in DeclaredInScope(current(c), Len(current(c).locals))
                  THEN error(c, "Already variable with this name in this scope.")
                  ELSE c,
                  name)

\* parseVariable after declareVariable
variableConstant(c, name) ==
    IF current(c).scopeDepth > 0 THEN Returning(c, 0) ELSE identifierConstant(c, name)

parseVariable(c, name) == variableConstant(declareVariable(c, name), name)

markInitialized(c) ==
    IF current(c).scopeDepth = 0 THEN c
    ELSE [c EXCEPT !.chain[Len(c.chain)].locals[Len(current(c).locals)].depth = current(c).scopeDepth]

defineVariable(c, global) ==
    IF ~Compiled(c) THEN c ELSE
    IF current(c).scopeDepth > 0 THEN markInitialized(c)
    ELSE emitConstantOperator(c, global, OP_DEFINE_GLOBAL, OP_DEFINE_GLOBAL_LONG)

\* namedVariable up to the choice of instruction: the operand is returned,
\* getOp and setOp are the instructions chosen
Named(c, getOp, setOp) == [c |-> c, arg |-> c.ret, getOp |-> getOp, setOp |-> setOp]

namedUpvalue(c, name) ==
    IF c.ret # -1 THEN Named(c, OP_GET_UPVALUE, OP_SET_UPVALUE)
    ELSE Named(identifierConstant(c, name), OP_GET_GLOBAL, OP_SET_GLOBAL)

namedLocal(c, name) ==
    IF c.ret # -1 THEN Named(c, OP_GET_LOCAL, OP_SET_LOCAL)
    ELSE namedUpvalue(resolveUpvalue(c, Len(c.chain), name), name)

resolveNamed(c, name) == namedLocal(resolveLocal(c, Len(c.chain), name), name)

emitGet(r) == emitConstantOperator(r.c, r.arg, r.getOp, OP_GET_GLOBAL_LONG)

\* namedVariable when no '=' follows (or canAssign is false)
namedVariable(c, name) == IF Compiled(c) THEN emitGet(resolveNamed(c, name)) ELSE c

number(c, value) ==
    IF value <= UINT8_MAX THEN emitBytes(c, OP_BYTE_NUM, value)
    ELSE emitConstant(c, NUMBER_VAL(value))

\* *(++current->loopTop) = loop
storeLoop(loops, top, loop) ==
    IF top + 1 <= Len(loops) THEN [loops EXCEPT ![top + 1] = loop] ELSE Append(loops, loop)

\* a pushLoop that starts the new loop at the break count of the loop around it
pushLoopShared(c, loopStart) ==
    IF ~Compiled(c) THEN c ELSE
    IF current(c).loopTop = UINT8_MAX THEN error(c, "Too many nested loops in chunk")
    ELSE [c EXCEPT !.chain[Len(c.chain)].loopTop = @ + 1,
                   !.chain[Len(c.chain)].loops =
                       storeLoop(@, current(c).loopTop + 1,
                                 [start |-> loopStart, breakStmts |-> <<0>>,
                                  breakCount |-> IF current(c).loopTop >= 0
                                                 THEN current(c).loops[current(c).loopTop + 1].breakCount
                                                 ELSE 0])]

pushLoop(c, loopStart) ==
    IF ~Compiled(c) THEN c ELSE
    IF current(c).loopTop = UINT8_MAX THEN error(c, "Too many nested loops in chunk")
    ELSE [c EXCEPT !.chain[Len(c.chain)].loopTop = @ + 1,
                   !.chain[Len(c.chain)].loops =
                       storeLoop(@, current(c).loopTop + 1,
                                 [start |-> loopStart, breakStmts |-> <<>>, breakCount |-> 0])]

RECURSIVE patchBreaks(_, _, _)
patchBreaks(c, breakStmts, i) ==
    IF i > Len(breakStmts) THEN c ELSE patchBreaks(patchJump(c, breakStmts[i]), breakStmts, i + 1)

\* the Loop at *current->loopTop
topLoop(c) == current(c).loops[current(c).loopTop + 1]

\* if (current->loopTop > current->loops) current->loopTop--
dropLoop(c) ==
    IF current(c).loopTop = 0 THEN c
    ELSE [c EXCEPT !.chain[Len(c.chain)].loopTop = @ - 1]

popLoop(c) ==
    dropLoop(patchBreaks(c, SubSeq(topLoop(c).breakStmts, 1, topLoop(c).breakCount), 1))

\* --------------------------------------------- compiler.c: the parselets
\* Source programs are sequences of declarations; a declaration, statement
\* or expression is a record whose field k names the grammar production:
\*   expressions  num(n) lit(v) str(s) name(name) assign(name, e) bin(op, l, r)
\*                call(f, args) get(o, name) set(o, name, e) invoke(o, name, args)
\*                this superget(name) superinvoke(name, args)
\*                and(l, r) or(l, r) not(e)
\*                array(args) subscript(o, args) subscriptset(o, args, e)
\*                invalidassign(target, e): target = e where target is none of
\*                name, get and subscript
\*   statements   print(e) expr(e) block(body) if(c, t, e) while(c, body)
\*                for(init, cond, incr, body) break continue return(e)
\*   declarations vardecl(name, init) fun(name, params, body)
\*                class(name, super, methods) and every statement
\* An absent optional part is the record None.
None == [k |-> "none"]

BinaryOp(op) ==
    CASE op = "!=" -> OP_NEQ [] op = "==" -> OP_EQ [] op = ">" -> OP_GT [] op = ">=" -> OP_GTE
      [] op = "<" -> OP_LT [] op = "<=" -> OP_LTE [] op = "+" -> OP_ADD [] op = "-" -> OP_SUBTRACT
      [] op = "*" -> OP_MULTIPLY [] op = "/" -> OP_DIVIDE

literal(c, v) ==
    CASE v = "false" -> emitByte(c, OP_FALSE)
      [] v = "nil" -> emitByte(c, OP_NIL)
      [] v = "true" -> emitByte(c, OP_TRUE)

\* emitConstant(OBJ_VAL(the string just copied))
emitString(c) == emitConstant(c, OBJ_VAL(c.ret))

string(c, s) == emitString(copyName(c, s))

this_(c) ==
    IF Len(c.classes) = 0 THEN error(c, "can't use 'this' outside of a class.")
    ELSE namedVariable(c, "this")

\* the error checks that open super_
superChecks(c) ==
    IF Len(c.classes) = 0 THEN error(c, "Can't use 'super' outside of a class.")
    ELSE IF ~c.classes[Len(c.classes)].hasSuperclass
         THEN error(c, "Can't use 'super' in a class with no superclass.")
         ELSE c

\* The recursive descent. A function of compiler.c that keeps a value in a
\* local variable across a nested call is written as the operators of its
\* successive parts, which receive the value; a part that follows a nested
\* statement or declaration starts from the state that this one has produced.
RECURSIVE expression(_, _), statement(_, _), declaration(_, _), argumentList(_, _, _)
RECURSIVE arrayArgList(_, _, _)

\* if (argCount == 255) error(...) for the argument at position i
argument(c, i) == IF i - 1 = 255 THEN error(c, "Can't have more that 255 arguments") ELSE c

\* compiles args[i..]; returns argCount, the uint8_t counter
argumentList(c, args, i) ==
    IF i > Len(args) THEN Returning(c, Len(args) % UINT8_COUNT)
    ELSE argumentList(argument(expression(c, args[i]), i), args, i + 1)

\* compiles the elements or indexes args[i..]; returns argCount, the uint8_t counter
arrayArgList(c, args, i) ==
    IF i > Len(args) THEN Returning(c, Len(args) % UINT8_COUNT)
    ELSE arrayArgList(argument(expression(c, args[i]), i), args, i + 1)

\* array after arrayArgList
array(c) == emitBytes(c, OP_NEW_ARRAY, c.ret)

\* subscript after arrayArgList, when no '=' follows
subscript(c) == emitBytes(c, OP_SUBSCRIPT, c.ret)

\* subscript after arrayArgList, when '=' follows
subscriptAssign(c, argCount, e) == emitBytes(expression(c, e), OP_SUBSCRIPT_ASSIGN, argCount)
subscriptSet(c, e) == subscriptAssign(c, c.ret, e)

\* namedVariable when '=' follows: r is what the name resolved to
assignment(r, e) == emitConstantOperator(expression(r.c, e), r.arg, r.setOp, OP_SET_GLOBAL_LONG)

\* call after argumentList
callArguments(c) == emitBytes(c, OP_CALL, c.ret)

\* dot after identifierConstant, when '=' follows
dotSet(c, e) == emitConstantOperator(expression(c, e), c.ret, OP_SET_PROPERTY, OP_SET_PROPERTY_LONG)

\* the instruction of an invocation after argumentList: name, then argCount
invocation(c, name, shortCode, longCode) ==
    emitByte(emitConstantOperator(c, name, shortCode, longCode), c.ret)

\* dot after identifierConstant, when '(' follows
dotInvoke(c, args) == invocation(argumentList(c, args, 1), c.ret, OP_INVOKE, OP_INVOKE_LONG)

\* super_ after identifierConstant, when no '(' follows
superGet(c) ==
    emitConstantOperator(namedVariable(namedVariable(c, "this"), "super"), c.ret,
                         OP_GET_SUPER, OP_GET_SUPER_LONG)

\* super_ after argumentList
superArguments(c, name) ==
    invocation(Returning(namedVariable(c, "super"), c.ret), name,
               OP_SUPER_INVOKE, OP_SUPER_INVOKE_LONG)

\* super_ after identifierConstant, when '(' follows
superInvoke(c, args) == superArguments(argumentList(namedVariable(c, "this"), args, 1), c.ret)

\* a parsePrecedence that takes an '=' left over after the rules without a word
invalidAssignmentSilent(c) == c

\* the end of parsePrecedence when canAssign holds and the next token is '=':
\* the tokens after the '=' are left to synchronize()
invalidAssignment(c) == error(c, "Invalid assignment target.")

\* and_ and or_ from emitByte(OP_POP): the right operand, then patchJump(endJump)
logicalRight(c, r) == patchJump(expression(emitByte(c, OP_POP), r), c.ret)

\* an and_ that jumps when the left operand is truthy
andJumpIfTrue(c, r) == logicalRight(emitJump(c, OP_JUMP_IF_TRUE), r)

and_(c, r) == logicalRight(emitJump(c, OP_JUMP_IF_FALSE), r)

or_(c, r) == logicalRight(emitJump(c, OP_JUMP_IF_TRUE), r)

\* unary for TOKEN_BANG
unary(c, e) == emitByte(expression(c, e), OP_NOT)

\* expression(), which is parsePrecedence(PREC_ASSIGNMENT): the prefix and
\* infix rules that e's form selects
expression(c, e) ==
    IF ~Compiled(c) THEN c ELSE
    CASE e.k = "num" -> number(c, e.n)
      [] e.k = "lit" -> literal(c, e.v)
      [] e.k = "str" -> string(c, e.s)
      [] e.k = "name" -> namedVariable(c, e.name)
      [] e.k = "assign" -> assignment(resolveNamed(c, e.name), e.e)
      [] e.k = "bin" -> emitByte(expression(expression(c, e.l), e.r), BinaryOp(e.op))
      [] e.k = "call" -> callArguments(argumentList(expression(c, e.f), e.args, 1))
      [] e.k = "get" -> emitOperator(identifierConstant(expression(c, e.o), e.name),
                                     OP_GET_PROPERTY, OP_GET_PROPERTY_LONG)
      [] e.k = "set" -> dotSet(identifierConstant(expression(c, e.o), e.name), e.e)
      [] e.k = "invoke" -> dotInvoke(identifierConstant(expression(c, e.o), e.name), e.args)
      [] e.k = "array" -> array(arrayArgList(c, e.args, 1))
      [] e.k = "subscript" -> subscript(arrayArgList(expression(c, e.o), e.args, 1))
      [] e.k = "subscriptset" -> subscriptSet(arrayArgList(expression(c, e.o), e.args, 1), e.e)
      [] e.k = "this" -> this_(c)
      [] e.k = "invalidassign" -> invalidAssignment(expression(c, e.target))
      [] e.k = "and" -> and_(expression(c, e.l), e.r)
      [] e.k = "or" -> or_(expression(c, e.l), e.r)
      [] e.k = "not" -> unary(c, e.e)
      [] e.k = "superget" -> superGet(identifierConstant(superChecks(c), e.name))
      [] e.k = "superinvoke" -> superInvoke(identifierConstant(superChecks(c), e.name), e.args)

expressionStatement(c, e) == emitByte(expression(c, e), OP_POP)

printStatement(c, e) == emitByte(expression(c, e), OP_PRINT)

\* varDeclaration after parseVariable
variableInitializer(c, init) ==
    IF ~Compiled(c) THEN c
    ELSE defineVariable(IF init.k = "none" THEN emitByte(c, OP_NIL) ELSE expression(c, init), c.ret)

varDeclaration(c, name, init) == variableInitializer(parseVariable(c, name), init)

\* current->loopTop < current->loops
noLoop(c) == current(c).loopTop < 0

\* current->loopTop->breakStmts[current->loopTop->breakCount++] = the jump emitted
storeBreak(c) ==
    IF noLoop(c) THEN [c EXCEPT !.below.breakCount = @ + 1]
    ELSE [c EXCEPT !.chain[Len(c.chain)].loops[current(c).loopTop + 1] =
                       [@ EXCEPT !.breakStmts = <<c.ret>> \o SubSeq(@, 2, Len(@)),
                                 !.breakCount = @ + 1]]

\* breakStatement from its second test
breakJump(c) ==
    IF (IF noLoop(c) THEN c.below.breakCount ELSE topLoop(c).breakCount) # 0
    THEN error(c, "Too many break statements in loop.")
    ELSE storeBreak(emitJump(c, OP_JUMP))

breakStatement(c) == breakJump(IF noLoop(c) THEN error(c, "No loop to break out of.") ELSE c)

continueStatement(c) ==
    emitLoop(IF noLoop(c) THEN error(c, "No loop to continue to top of.") ELSE c,
             IF noLoop(c) THEN c.below.start ELSE topLoop(c).start)

returnStatement(c, e) ==
    IF e.k = "none" THEN emitReturn(c)
    ELSE emitByte(expression(IF current(c).type = "TYPE_SCRIPT"
                             THEN error(c, "Can't return value from top-level code.")
                             ELSE IF current(c).type = "TYPE_INITIALIZER"
                                  THEN error(c, "Can't return a value from an initializer")
                                  ELSE c,
                             e),
                  OP_RETURN)

synchronize(c) == [c EXCEPT !.panicMode = FALSE]

RECURSIVE blockSpan(_, _, _, _), parameters(_, _, _), methods(_, _, _), upvalueBytes(_, _, _)

\* the loop of block() over the declarations body[lo..hi], first to last (the
\* span is halved, so that the evaluation nests to the logarithm of its length)
blockSpan(c, body, lo, hi) ==
    IF lo > hi \/ ~Compiled(c) THEN c
    ELSE IF lo = hi THEN declaration(c, body[lo])
    ELSE blockSpan(blockSpan(c, body, lo, (lo + hi) \div 2), body, (lo + hi) \div 2 + 1, hi)

\* block(): the declarations body[i..] up to the closing brace
block(c, body, i) == blockSpan(c, body, i, Len(body))

\* one turn of the parameter loop of function()
parameterArity(c) ==
    IF c.vm.heap[current(c).function].arity > 255
    THEN errorAt(c, "Can't have more that 255 parameters.") ELSE c

parameterDefined(c) == defineVariable(c, c.ret)

parameter(c, name) ==
    IF ~Compiled(c) THEN c ELSE
    parameterDefined(parseVariable(
        parameterArity([c EXCEPT !.vm.heap[current(c).function].arity = @ + 1]), name))

parameters(c, params, i) ==
    IF i > Len(params) THEN c ELSE parameters(parameter(c, params[i]), params, i + 1)

upvalueBytes(c, upvalues, i) ==
    IF i > Len(upvalues) THEN c
    ELSE upvalueBytes(emitByte(emitByte(c, IF upvalues[i].isLocal THEN 1 ELSE 0), upvalues[i].index),
                      upvalues, i + 1)

\* function() after makeConstant(OBJ_VAL(function))
emitClosure(c, upvalues) ==
    upvalueBytes(emitOperator(c, OP_CLOSURE, OP_CLOSURE_LONG), upvalues, 1)

\* function() after endCompiler
functionClosure(c) == emitClosure(makeConstant(c, OBJ_VAL(c.ret.function)), c.ret.upvalues)

\* function() after block()
functionEnd(c) == IF Compiled(c) THEN functionClosure(endCompiler(c)) ELSE c

function(c, type, name, params, body) ==
    functionEnd(block(parameters(beginScope(initCompiler(c, type, name)), params, 1), body, 1))

\* method() after identifierConstant
methodBody(c, m) ==
    IF ~Compiled(c) THEN c ELSE
    emitConstantOperator(function(c, IF m.name = "init" THEN "TYPE_INITIALIZER" ELSE "TYPE_METHOD",
                                  m.name, m.params, m.body),
                         c.ret, OP_METHOD, OP_METHOD_LONG)

method(c, m) == methodBody(identifierConstant(c, m.name), m)

methods(c, ms, i) ==
    IF i > Len(ms) \/ ~Compiled(c) THEN c
    ELSE methods(method(c, ms[i]), ms, i + 1)

\* funDeclaration after parseVariable
functionBody(c, d) ==
    defineVariable(function(markInitialized(c), "TYPE_FUNCTION", d.name, d.params, d.body), c.ret)

funDeclaration(c, d) == functionBody(parseVariable(c, d.name), d)

\* a classDeclaration that ends without currentClass = currentClass->enclosing
classEndKeeps(c) == IF c.classes[Len(c.classes)].hasSuperclass THEN endScope(c) ELSE c

\* classDeclaration from if (classCompiler.hasSuperclass) endScope()
classEnd(c) ==
    [IF c.classes[Len(c.classes)].hasSuperclass THEN endScope(c) ELSE c
        EXCEPT !.classes = SubSeq(@, 1, Len(@) - 1)]

\* classDeclaration after the loop of method()
classMethods(c) == IF Compiled(c) THEN classEnd(emitByte(c, OP_POP)) ELSE c

\* classDeclaration from the namedVariable(className, false) before the body
classBody(c, d) ==
    IF Compiled(c) THEN classMethods(methods(namedVariable(c, d.name), d.methods, 1)) ELSE c

\* if (identifiersEqual(&className, &parser.previous)) error(...)
classItself(c, d) ==
    IF d.name = d.super THEN error(c, "A class can't inherit from itself.") ELSE c

classHasSuperclass(c) == [c EXCEPT !.classes[Len(c.classes)].hasSuperclass = TRUE]

\* classDeclaration when '<' follows the name
classSuperclass(c, d) ==
    IF ~Compiled(c) THEN c ELSE
    classHasSuperclass(
        emitByte(namedVariable(defineVariable(addLocal(beginScope(
                     classItself(namedVariable(c, d.super), d)), "super"), 0),
                               d.name),
                 OP_INHERIT))

\* classDeclaration after declareVariable
classNamed(c, d) ==
    IF ~Compiled(c) THEN c ELSE
    [defineVariable(emitOperator(c, OP_CLASS, OP_CLASS_LONG), c.ret)
        EXCEPT !.classes = Append(@, [name |-> d.name, hasSuperclass |-> FALSE])]

classDeclaration(c, d) ==
    classBody(IF d.super = ""
              THEN classNamed(declareVariable(identifierConstant(c, d.name), d.name), d)
              ELSE classSuperclass(
                       classNamed(declareVariable(identifierConstant(c, d.name), d.name), d), d),
              d)

\* forStatement from popLoop
forEnd(c, loopStart, exitJump) ==
    IF ~Compiled(c) THEN c
    ELSE endScope(IF exitJump # -1
                  THEN emitByte(patchJump(emitLoop(popLoop(c), loopStart), exitJump), OP_POP)
                  ELSE emitLoop(popLoop(c), loopStart))

\* forStatement from pushLoop
forBody(c, s, loopStart, exitJump) ==
    IF ~Compiled(c) THEN c ELSE
    forEnd(statement(pushLoop(c, loopStart), s.body), loopStart, exitJump)

\* forStatement from int incrementStart = currentChunk()->count
forIncrement(c, s, loopStart, exitJump) ==
    IF ~Compiled(c) THEN c ELSE
    forBody(patchJump(emitLoop(emitByte(expression(c, s.incr), OP_POP), loopStart), c.ret),
            s, chunkCount(c), exitJump)

\* forStatement from if (!match(TOKEN_RIGHT_PAREN))
forClauses(c, s, loopStart, exitJump) ==
    IF ~Compiled(c) THEN c ELSE
    IF s.incr.k = "none" THEN forBody(c, s, loopStart, exitJump)
    ELSE forIncrement(emitJump(c, OP_JUMP), s, loopStart, exitJump)

\* forStatement after exitJump = emitJump(OP_JUMP_IF_FALSE)
forExit(c, s, loopStart) ==
    IF ~Compiled(c) THEN c ELSE
    forClauses(emitByte(c, OP_POP), s, loopStart, c.ret)

\* forStatement from int loopStart = currentChunk()->count
forCondition(c, s) ==
    IF ~Compiled(c) THEN c ELSE
    IF s.cond.k = "none" THEN forClauses(c, s, chunkCount(c), -1)
    ELSE forExit(emitJump(expression(c, s.cond), OP_JUMP_IF_FALSE), s, chunkCount(c))

forInitializer(c, init) ==
    IF init.k = "none" THEN c
    ELSE IF init.k = "vardecl" THEN varDeclaration(c, init.name, init.init)
    ELSE expressionStatement(c, init.e)

forStatement(c, s) == forCondition(forInitializer(beginScope(c), s.init), s)

\* ifStatement from the last patchJump(elseJump)
ifEnd(c, elseJump) == IF Compiled(c) THEN patchJump(c, elseJump) ELSE c

\* ifStatement from patchJump(thenJump)
ifElse(c, s, thenJump) ==
    IF ~Compiled(c) THEN c ELSE
    IF s.e.k = "none" THEN patchJump(emitByte(patchJump(c, thenJump), OP_POP), c.ret)
    ELSE ifEnd(statement(emitByte(patchJump(c, thenJump), OP_POP), s.e), c.ret)

\* ifStatement from int elseJump = emitJump(OP_JUMP)
ifJump(c, s, thenJump) == IF Compiled(c) THEN ifElse(emitJump(c, OP_JUMP), s, thenJump) ELSE c

\* ifStatement after thenJump = emitJump(OP_JUMP_IF_FALSE)
ifThen(c, s) ==
    IF ~Compiled(c) THEN c ELSE
    ifJump(statement(emitByte(c, OP_POP), s.t), s, c.ret)

ifStatement(c, s) == ifThen(emitJump(expression(c, s.c), OP_JUMP_IF_FALSE), s)

\* whileStatement from emitLoop(loopStart)
whileEnd(c, loopStart, exitJump) ==
    IF Compiled(c) THEN emitByte(patchJump(popLoop(emitLoop(c, loopStart)), exitJump), OP_POP)
    ELSE c

\* whileStatement after exitJump = emitJump(OP_JUMP_IF_FALSE)
whileBody(c, s, loopStart) ==
    IF ~Compiled(c) THEN c ELSE
    whileEnd(statement(emitByte(c, OP_POP), s.body), loopStart, c.ret)

whileStatement(c, s) ==
    whileBody(emitJump(expression(pushLoop(c, chunkCount(c)), s.c), OP_JUMP_IF_FALSE),
              s, chunkCount(c))

\* the end of a block statement
blockEnd(c) == IF Compiled(c) THEN endScope(c) ELSE c

statement(c, s) ==
    IF ~Compiled(c) THEN c
    ELSE CASE s.k = "print" -> printStatement(c, s.e)
           [] s.k = "break" -> breakStatement(c)
           [] s.k = "continue" -> continueStatement(c)
           [] s.k = "for" -> forStatement(c, s)
           [] s.k = "if" -> ifStatement(c, s)
           [] s.k = "return" -> returnStatement(c, s.e)
           [] s.k = "while" -> whileStatement(c, s)
           [] s.k = "block" -> blockEnd(block(beginScope(c), s.body, 1))
           [] s.k = "expr" -> expressionStatement(c, s.e)

\* if (parser.panicMode) synchronize()
synchronized(c) == IF c.panicMode THEN synchronize(c) ELSE c

declaration(c, d) ==
    synchronized(CASE d.k = "class" -> classDeclaration(c, d)
                   [] d.k = "fun" -> funDeclaration(c, d)
                   [] d.k = "vardecl" -> varDeclaration(c, d.name, d.init)
                   [] OTHER -> statement(c, d))

\* the VM and the statics current and currentClass as compile() leaves them
compilerLeft(c) == [c.vm EXCEPT !.current = Len(c.chain), !.currentClass = Len(c.classes)]

\* a compile() that returns the function whether or not an error was reported
compiledDespiteErrors(c) == [vm |-> compilerLeft(c), function |-> c.ret.function]

\* return parser.hadError ? NULL : function
compiled(c) == [vm |-> compilerLeft(c), function |-> IF c.hadError THEN 0 ELSE c.ret.function]

\* compile() after the loop of declaration()
compileEnd(c) == IF Compiled(c) THEN compiled(endCompiler(c)) ELSE c

\* compile(source); below is what the memory in front of Compiler.loops holds
compile(vm, source, below) ==
    compileEnd(block(
        initCompiler([vm |-> vm, hadError |-> FALSE, panicMode |-> FALSE, chain |-> <<>>,
                      classes |-> <<>>, below |-> below, ret |-> 0],
                     "TYPE_SCRIPT", ""),
        source, 1))

\* ------------------------------------------------------ value.c, object.c
RECURSIVE stringifyValue(_, _)
stringifyFunction(vm, fn) ==
    IF vm.heap[fn].name = 0 THEN "<script>"
    ELSE "<fun " \o vm.heap[vm.heap[fn].name].chars \o ">"

stringifyObject(vm, value) ==
    LET o == vm.heap[value.as]
    IN CASE o.type = "bound_method" ->
              "<bound method " \o vm.heap[vm.heap[vm.heap[o.method].function].name].chars
                  \o " of object '" \o stringifyValue(vm, o.reciever) \o "'>"
         [] o.type = "class" -> "<class " \o vm.heap[o.name].chars \o ">"
         [] o.type = "closure" -> stringifyFunction(vm, o.function)
         [] o.type = "function" -> stringifyFunction(vm, value.as)
         [] o.type = "instance" ->
              "<" \o vm.heap[vm.heap[o.klass].name].chars \o " instance at 0x" \o ToString(value.as) \o ">"
         [] o.type = "native" -> "<native fun>"
         [] o.type = "upvalue" -> "upvalue"
         [] o.type = "string" -> o.chars
         [] o.type = "array" -> "<array of length " \o ToString(o.count) \o ">"

\* numbers are printed with %g; the model's numbers are integers of at most six digits
stringifyValue(vm, value) ==
    CASE value.type = "bool" -> IF AS_BOOL(value) THEN "true" ELSE "false"
      [] value.type = "nil" -> "nil"
      [] value.type = "number" -> ToString(value.as)
      [] value.type = "obj" -> stringifyObject(vm, value)
      [] value.type = "int" -> "<internal int " \o ToString(value.as) \o ">"

printValue(vm, value) == [vm EXCEPT !.out = Append(@, stringifyValue(vm, value))]

\* utils.c: asprintf returns the number of bytes it printed, the terminator not counted
asprintf(text) == [result |-> text, length |-> Len(text)]

\* toString() of vm.c
toStringTaken(vm, printed) == takeString(vm, printed.result, printed.length)
toString(vm, value) == toStringTaken(vm, asprintf(stringifyValue(vm, value)))

\* ------------------------------------------------------------------- vm.c
\* resetStack() between FREE_ARRAY(Value, vm.stack, STACK_MAX) and the return
\* of ALLOCATE(Value, STACK_MAX): the buffer is released, and stack, stackTop,
\* frameCount and the frames are the VM's fields as the allocator finds them
resetStackFreed(vm) == [vm EXCEPT !.cells = <<>>]

\* a resetStack that empties the table of globals as well
resetStackGlobals(vm, nd) ==
    [vm EXCEPT !.cells = <<>>, !.stack = nd.base, !.stackTop = nd.base,
               !.frameCount = 0, !.openUpvalues = 0, !.globals = EmptyTable]

resetStack(vm, nd) ==
    [vm EXCEPT !.cells = <<>>, !.stack = nd.base, !.stackTop = nd.base,
               !.frameCount = 0, !.openUpvalues = 0]

\* the line of the back-trace for frame i: its function's name
TraceLine(vm, i) ==
    LET fn == vm.heap[vm.heap[vm.frames[i].closure].function]
    IN IF fn.name = 0 THEN "script" ELSE vm.heap[fn.name].chars \o "()"

vruntimeError(vm, message, nd) ==
    LET trace == [k \in 1..vm.frameCount |-> TraceLine(vm, vm.frameCount + 1 - k)]
    IN resetStack([vm EXCEPT !.hasError = TRUE,
                             !.err = Append(@, [msg |-> message, trace |-> trace])], nd)

runtimeError(vm, message, nd) == vruntimeError(vm, message, nd)

ERR_ARGCOUNT(vm, expected, passed, nd) ==
    vruntimeError(vm, "Expected " \o ToString(expected) \o " arguments but got " \o ToString(passed), nd)

propertyError(vm, property, value, nd) ==
    vruntimeError(vm, "Undefined property '" \o vm.heap[property].chars \o "' of '"
                          \o stringifyValue(vm, value) \o "'.", nd)

defineNative(vm, name, fnName) ==
    LET cs == copyString(vm, name)
        v1 == push(cs.vm, OBJ_VAL(cs.ref))
        v2 == push(newNative(v1, fnName), OBJ_VAL(NewRef(v1)))
        v3 == [v2 EXCEPT !.globals = tableSet(@, cs.ref, OBJ_VAL(NewRef(v1)))]
    IN pop(pop(v3))

\* a call that refuses the frame only once frameCount is above FRAMES_MAX
callLate(vm, closure, argCount, nd) ==
    LET fn == vm.heap[vm.heap[closure].function]
        frame == [closure |-> closure, ip |-> 0, slots |-> vm.stackTop - argCount - 1]
        n == vm.frameCount
    IN IF argCount # fn.arity
       THEN [vm |-> ERR_ARGCOUNT(vm, fn.arity, argCount, nd), ok |-> FALSE]
       ELSE IF vm.frameCount > FRAMES_MAX
            THEN [vm |-> runtimeError(vm, "Stack overflow.", nd), ok |-> FALSE]
            ELSE [vm |-> [vm EXCEPT !.frameCount = n + 1,
                                    !.frames = IF n + 1 <= Len(@) THEN [@ EXCEPT ![n + 1] = frame]
                                               ELSE Append(@, frame)],
                  ok |-> TRUE]

call(vm, closure, argCount, nd) ==
    LET fn == vm.heap[vm.heap[closure].function]
        frame == [closure |-> closure, ip |-> 0, slots |-> vm.stackTop - argCount - 1]
        n == vm.frameCount
    IN IF argCount # fn.arity
       THEN [vm |-> ERR_ARGCOUNT(vm, fn.arity, argCount, nd), ok |-> FALSE]
       ELSE IF vm.frameCount = FRAMES_MAX
            THEN [vm |-> runtimeError(vm, "Stack overflow.", nd), ok |-> FALSE]
            ELSE [vm |-> [vm EXCEPT !.frameCount = n + 1,
                                    !.frames = IF n + 1 <= Len(@) THEN [@ EXCEPT ![n + 1] = frame]
                                               ELSE Append(@, frame)],
                  ok |-> TRUE]

getProperty(vm, obj, name) ==
    IF IS_INSTANCE(vm, obj) /\ tableHas(vm.heap[obj.as].fields, name)
    THEN [found |-> TRUE, result |-> tableGet(vm.heap[obj.as].fields, name)]
    ELSE [found |-> FALSE, result |-> NIL_VAL]

\* natives.c: each native returns the state and its result
funHas(vm, argCount, args, nd) ==
    LET fieldValue == ReadAt(vm, args + 1, nd.g)
        value == ReadAt(vm, args, nd.g)
    IN IF argCount # 2 THEN [vm |-> ERR_ARGCOUNT(vm, 2, argCount, nd), result |-> NULL_VAL]
       ELSE IF ~IS_STRING(vm, fieldValue) THEN [vm |-> vm, result |-> BOOL_VAL(FALSE)]
       ELSE IF IS_INSTANCE(vm, value)
            THEN [vm |-> vm, result |-> BOOL_VAL(tableHas(vm.heap[value.as].fields, fieldValue.as))]
            ELSE [vm |-> vm, result |-> BOOL_VAL(FALSE)]

funGet(vm, argCount, args, nd) ==
    LET fieldValue == ReadAt(vm, args + 1, nd.g)
        value == ReadAt(vm, args, nd.g)
        p == getProperty(vm, value, fieldValue.as)
    IN IF argCount # 2 THEN [vm |-> ERR_ARGCOUNT(vm, 2, argCount, nd), result |-> NULL_VAL]
       ELSE IF ~IS_STRING(vm, fieldValue)
            THEN [vm |-> runtimeError(vm, "Cannot have non-string property of object", nd),
                  result |-> NULL_VAL]
       ELSE IF ~p.found
            THEN [vm |-> propertyError(vm, fieldValue.as, value, nd), result |-> NULL_VAL]
            ELSE [vm |-> vm, result |-> p.result]

funSet(vm, argCount, args, nd) ==
    LET fieldValue == ReadAt(vm, args + 1, nd.g)
        value == ReadAt(vm, args, nd.g)
        newValue == ReadAt(vm, args + 2, nd.g)
    IN IF argCount # 3 THEN [vm |-> ERR_ARGCOUNT(vm, 3, argCount, nd), result |-> NULL_VAL]
       ELSE IF ~IS_STRING(vm, fieldValue)
            THEN [vm |-> runtimeError(vm, "Cannot have non-string property of object", nd),
                  result |-> NULL_VAL]
       ELSE IF IS_INSTANCE(vm, value)
            THEN [vm |-> [vm EXCEPT !.heap[value.as].fields = tableSet(@, fieldValue.as, newValue)],
                  result |-> NIL_VAL]
            ELSE [vm |-> runtimeError(vm, "Only instances have fields.", nd), result |-> NULL_VAL]

funSize(vm, argCount, args, nd) ==
    IF argCount # 1 THEN [vm |-> ERR_ARGCOUNT(vm, 1, argCount, nd), result |-> NULL_VAL]
    ELSE IF IS_STRING(vm, ReadAt(vm, args, nd.g))
         THEN [vm |-> vm, result |-> NUMBER_VAL(vm.heap[ReadAt(vm, args, nd.g).as].length)]
    ELSE IF IsObjType(vm, ReadAt(vm, args, nd.g), "array")
         THEN [vm |-> vm, result |-> NUMBER_VAL(vm.heap[ReadAt(vm, args, nd.g).as].count)]
         ELSE [vm |-> runtimeError(vm, "Only strings, arrays, and tables have size/length", nd),
               result |-> NULL_VAL]

\* the text funGetTypeName prints for a value
typeName(vm, value) ==
    CASE value.type = "bool" -> "boolean"
      [] value.type = "number" -> "number"
      [] value.type = "nil" -> "nil"
      [] value.type = "int" -> "int"
      [] value.type = "obj" ->
           IF IS_NULL(value) THEN "null"
           ELSE CASE OBJ_TYPE(vm, value) = "class" -> "class"
                  [] OBJ_TYPE(vm, value) = "closure" -> "closure"
                  [] OBJ_TYPE(vm, value) = "function" -> "function"
                  [] OBJ_TYPE(vm, value) = "instance" ->
                       vm.heap[vm.heap[vm.heap[value.as].klass].name].chars
                  [] OBJ_TYPE(vm, value) = "native" -> "native"
                  [] OBJ_TYPE(vm, value) = "upvalue" -> "upvalue"
                  [] OBJ_TYPE(vm, value) = "string" -> "string"
                  [] OBJ_TYPE(vm, value) = "array" -> "array"
                  [] OTHER -> "object"
      [] OTHER -> "value"

\* return OBJ_VAL(takeString(result, length - 1))
typeNameTaken(vm, printed) == takeString(vm, printed.result, printed.length - 1)

typeNameString(s) == [vm |-> s.vm, result |-> OBJ_VAL(s.ref)]

funGetTypeName(vm, argCount, args, nd) ==
    IF argCount # 1 THEN [vm |-> ERR_ARGCOUNT(vm, 1, argCount, nd), result |-> NULL_VAL]
    ELSE typeNameString(typeNameTaken(vm, asprintf(typeName(vm, ReadAt(vm, args, nd.g)))))

funToString(vm, argCount, args, nd) ==
    IF argCount # 1 THEN [vm |-> ERR_ARGCOUNT(vm, 1, argCount, nd), result |-> NULL_VAL]
    ELSE typeNameString(toString(vm, ReadAt(vm, args, nd.g)))

\* clock() / CLOCKS_PER_SEC of a process that has used no processor time yet
funClock(vm, argCount, args, nd) ==
    IF argCount # 0 THEN [vm |-> ERR_ARGCOUNT(vm, 0, argCount, nd), result |-> NULL_VAL]
    ELSE [vm |-> vm, result |-> NUMBER_VAL(0)]

\* the call through the NativeFn pointer
native(vm, fnName, argCount, args, nd) ==
    CASE fnName = "has" -> funHas(vm, argCount, args, nd)
      [] fnName = "get" -> funGet(vm, argCount, args, nd)
      [] fnName = "set" -> funSet(vm, argCount, args, nd)
      [] fnName = "size" -> funSize(vm, argCount, args, nd)
      [] fnName = "getTypeName" -> funGetTypeName(vm, argCount, args, nd)
      [] fnName = "toString" -> funToString(vm, argCount, args, nd)
      [] fnName = "clock" -> funClock(vm, argCount, args, nd)
      \* a NativeFn of the embedding program that returns NULL_VAL and reports nothing
      [] fnName = "silent" -> [vm |-> vm, result |-> NULL_VAL]

NativeNames == <<"has", "get", "set", "size", "getTypeName", "toString", "clock">>

\* the state vm has been computed (always true; the test fixes the order of
\* evaluation)
Evaluated(vm) == vm.hasError \in BOOLEAN

\* the natives NativeNames[i..] are defined in the state that defining the
\* earlier ones has produced
RECURSIVE defineNatives(_, _)
defineNatives(vm, i) ==
    IF i > Len(NativeNames) \/ ~Evaluated(vm) THEN vm
    ELSE defineNatives(defineNative(vm, NativeNames[i], NativeNames[i]), i + 1)

initializeNatives(vm) == defineNatives(vm, 1)

callValue(vm, callee, argCount, nd) ==
    LET o == vm.heap[callee.as]
        \* OBJ_BOUND_METHOD
        b1 == WriteAt(vm, vm.stackTop - argCount - 1, o.reciever)
        \* OBJ_CLASS
        k1 == WriteAt(newInstance(vm, callee.as), vm.stackTop - argCount - 1, OBJ_VAL(NewRef(vm)))
        \* OBJ_NATIVE
        r == native(vm, o.function, argCount, vm.stackTop - argCount, nd)
        n1 == push([r.vm EXCEPT !.stackTop = @ - (argCount + 1)], r.result)
        failure == IS_NULL(r.result)
    IN IF IsObjType(vm, callee, "bound_method") THEN call(b1, o.method, argCount, nd)
       ELSE IF IsObjType(vm, callee, "class")
            THEN IF tableHas(o.methods, vm.initString)
                 THEN call(k1, tableGet(o.methods, vm.initString).as, argCount, nd)
                 ELSE IF argCount # 0
                      THEN [vm |-> runtimeError(k1, "Expected 0 arguments to constructor but got "
                                                     \o ToString(argCount) \o ".", nd),
                            ok |-> FALSE]
                      ELSE [vm |-> k1, ok |-> TRUE]
       ELSE IF IsObjType(vm, callee, "closure") THEN call(vm, callee.as, argCount, nd)
       ELSE IF IsObjType(vm, callee, "native")
            THEN [vm |-> IF failure /\ ~n1.hasError THEN runtimeError(n1, "An error occured.", nd)
                         ELSE n1,
                  ok |-> ~failure]
       ELSE [vm |-> runtimeError(vm, "Can only call functions and classes.", nd), ok |-> FALSE]

invokeFromClass(vm, klass, name, argCount, nd) ==
    IF ~tableHas(vm.heap[klass].methods, name)
    THEN [vm |-> propertyError(vm, name, peek(vm, argCount, nd.g), nd), ok |-> FALSE]
    ELSE call(vm, tableGet(vm.heap[klass].methods, name).as, argCount, nd)

\* invoke that looks in the class's methods before the instance's fields
invokeMethodFirst(vm, name, argCount, nd) ==
    IF ~IS_INSTANCE(vm, peek(vm, argCount, nd.g))
    THEN [vm |-> runtimeError(vm, "Only instances have methods.", nd), ok |-> FALSE]
    ELSE IF tableHas(vm.heap[vm.heap[peek(vm, argCount, nd.g).as].klass].methods, name)
            \/ ~tableHas(vm.heap[peek(vm, argCount, nd.g).as].fields, name)
         THEN invokeFromClass(vm, vm.heap[peek(vm, argCount, nd.g).as].klass, name, argCount, nd)
         ELSE callValue(WriteAt(vm, vm.stackTop - argCount - 1,
                                tableGet(vm.heap[peek(vm, argCount, nd.g).as].fields, name)),
                        tableGet(vm.heap[peek(vm, argCount, nd.g).as].fields, name), argCount, nd)

invoke(vm, name, argCount, nd) ==
    LET reciever == peek(vm, argCount, nd.g)
        instance == vm.heap[reciever.as]
        value == tableGet(instance.fields, name)
    IN IF ~IS_INSTANCE(vm, reciever)
       THEN [vm |-> runtimeError(vm, "Only instances have methods.", nd), ok |-> FALSE]
       ELSE IF tableHas(instance.fields, name)
            THEN callValue(WriteAt(vm, vm.stackTop - argCount - 1, value), value, argCount, nd)
            ELSE invokeFromClass(vm, instance.klass, name, argCount, nd)

\* returns the state and the bool bindMethod returns
bindMethod(vm, klass, name, nd) ==
    LET bound == NewRef(vm)
        v1 == newBoundMethod(vm, peek(vm, 0, nd.g), tableGet(vm.heap[klass].methods, name).as)
    IN IF ~tableHas(vm.heap[klass].methods, name)
       THEN [vm |-> propertyError(vm, name, peek(vm, 0, nd.g), nd), ret |-> TRUE]
       ELSE [vm |-> push(pop(v1), OBJ_VAL(bound)), ret |-> FALSE]

\* a walk that stops at the head of the list whatever slot it holds
captureWalkHead(vm, prevUpvalue, upvalue, local) ==
    [prevUpvalue |-> prevUpvalue, upvalue |-> upvalue]

\* a captureUpvalue that never finds the slot's upvalue on the list: every
\* capture gets an upvalue of its own, linked in at the head
captureUnshared(vm, local) ==
    [vm |-> [newUpvalue(vm, local) EXCEPT !.heap[NewRef(vm)].next = vm.openUpvalues,
                                          !.openUpvalues = NewRef(vm)],
     ref |-> NewRef(vm)]

\* the loop of captureUpvalue: the last upvalue above local and the first not above it
RECURSIVE captureWalk(_, _, _, _)
captureWalk(vm, prevUpvalue, upvalue, local) ==
    IF upvalue # 0 /\ vm.heap[upvalue].location > local
    THEN captureWalk(vm, upvalue, vm.heap[upvalue].next, local)
    ELSE [prevUpvalue |-> prevUpvalue, upvalue |-> upvalue]

captureUpvalue(vm, local) ==
    LET w == captureWalk(vm, 0, vm.openUpvalues, local)
        createdUpvalue == NewRef(vm)
        v1 == [newUpvalue(vm, local) EXCEPT !.heap[createdUpvalue].next = w.upvalue]
    IN IF w.upvalue # 0 /\ vm.heap[w.upvalue].location = local
       THEN [vm |-> vm, ref |-> w.upvalue]
       ELSE [vm |-> IF w.prevUpvalue = 0 THEN [v1 EXCEPT !.openUpvalues = createdUpvalue]
                    ELSE [v1 EXCEPT !.heap[w.prevUpvalue].next = createdUpvalue],
             ref |-> createdUpvalue]

RECURSIVE closeUpvalues(_, _, _)
closeUpvalues(vm, last, g) ==
    LET upvalue == vm.openUpvalues
        o == vm.heap[upvalue]
    IN IF upvalue # 0 /\ o.location >= last
       THEN closeUpvalues([vm EXCEPT !.heap[upvalue].closed = ReadAt(vm, o.location, g),
                                     !.heap[upvalue].isClosed = TRUE,
                                     !.openUpvalues = o.next,
                                     !.ub = @ \/ ~InBuffer(vm, o.location)],
                          last, g)
       ELSE vm

\* defineMethod that leaves alone a name the table already holds
defineMethodKeep(vm, name, g) ==
    IF tableHas(vm.heap[peek(vm, 1, g).as].methods, name) THEN pop(vm)
    ELSE pop([vm EXCEPT !.heap[peek(vm, 1, g).as].methods = tableSet(@, name, peek(vm, 0, g))])

defineMethod(vm, name, g) ==
    LET m == peek(vm, 0, g)
        klass == peek(vm, 1, g).as
    IN pop([vm EXCEPT !.heap[klass].methods = tableSet(@, name, m)])

\* the loop of opClosure over the upvalue descriptors that follow the instruction;
\* f is the frame, i the index of the next upvalue, ip is advanced past each pair
RECURSIVE closureUpvalues(_, _, _, _)
closureUpvalues(vm, closure, f, i) ==
    LET frame == vm.frames[f]
        code == vm.heap[vm.heap[frame.closure].function].code
        isLocal == code[frame.ip + 1]
        index == code[frame.ip + 2]
        v1 == [vm EXCEPT !.frames[f].ip = @ + 2]
        cap == captureUpvalue(v1, frame.slots + index)
        v2 == IF isLocal # 0 THEN [cap.vm EXCEPT !.heap[closure].upvalues[i] = cap.ref]
              ELSE [v1 EXCEPT !.heap[closure].upvalues[i] =
                                  vm.heap[frame.closure].upvalues[index + 1]]
    IN IF i > Len(vm.heap[closure].upvalues) THEN vm
       ELSE closureUpvalues(v2, closure, f, i + 1)

opClosure(vm, closure, f) == closureUpvalues(push(vm, OBJ_VAL(closure)), closure, f, 1)

\* returns the state and the bool opGetProperty returns
opGetProperty(vm, name, nd) ==
    LET obj == peek(vm, 0, nd.g)
        p == getProperty(vm, obj, name)
    IN IF p.found THEN [vm |-> push(pop(vm), p.result), ret |-> FALSE]
       ELSE IF IS_INSTANCE(vm, obj) THEN bindMethod(vm, vm.heap[obj.as].klass, name, nd)
       ELSE [vm |-> vm, ret |-> TRUE]

\* an isFalsey for which only nil and false are false
isFalseyStrict(vm, value) == IS_NIL(value) \/ (IS_BOOL(value) /\ ~AS_BOOL(value))

isFalsey(vm, value) ==
    \/ IS_NIL(value)
    \/ (IS_BOOL(value) /\ ~AS_BOOL(value))
    \/ (IS_NUMBER(value) /\ AS_NUMBER(value) = 0)
    \/ (IS_STRING(vm, value) /\ vm.heap[value.as].length = 0)

\* a valuesEqual that compares the tags only
valuesEqualTags(a, b) == a.type = b.type

valuesEqual(a, b) ==
    IF a.type # b.type THEN FALSE
    ELSE CASE a.type = "bool" -> a.as = b.as
           [] a.type = "nil" -> TRUE
           [] a.type = "number" -> a.as = b.as
           [] a.type = "obj" -> a.as = b.as
           [] OTHER -> FALSE

valuesNotEqual(a, b) ==
    IF a.type # b.type THEN TRUE
    ELSE CASE a.type = "bool" -> a.as # b.as
           [] a.type = "nil" -> FALSE
           [] a.type = "number" -> a.as # b.as
           [] a.type = "obj" -> a.as # b.as
           [] OTHER -> TRUE
\* ---------------------------------------------------------- source programs
NumE(n) == [k |-> "num", n |-> n]
LitE(v) == [k |-> "lit", v |-> v]
StrE(s) == [k |-> "str", s |-> s]
NameE(x) == [k |-> "name", name |-> x]
AssignE(x, e) == [k |-> "assign", name |-> x, e |-> e]
BinE(op, l, r) == [k |-> "bin", op |-> op, l |-> l, r |-> r]
CallE(f, args) == [k |-> "call", f |-> f, args |-> args]
GetE(o, x) == [k |-> "get", o |-> o, name |-> x]
SetE(o, x, e) == [k |-> "set", o |-> o, name |-> x, e |-> e]
InvokeE(o, x, args) == [k |-> "invoke", o |-> o, name |-> x, args |-> args]
ThisE == [k |-> "this"]
AndE(l, r) == [k |-> "and", l |-> l, r |-> r]
OrE(l, r) == [k |-> "or", l |-> l, r |-> r]
NotE(e) == [k |-> "not", e |-> e]
SuperGetE(x) == [k |-> "superget", name |-> x]
SuperInvokeE(x, args) == [k |-> "superinvoke", name |-> x, args |-> args]
ArrayE(args) == [k |-> "array", args |-> args]
SubscriptE(o, args) == [k |-> "subscript", o |-> o, args |-> args]
SubscriptSetE(o, args, e) == [k |-> "subscriptset", o |-> o, args |-> args, e |-> e]
InvalidAssignE(target, e) == [k |-> "invalidassign", target |-> target, e |-> e]
OutS(e) == [k |-> "print", e |-> e]
ExprS(e) == [k |-> "expr", e |-> e]
BlockS(body) == [k |-> "block", body |-> body]
IfS(c, t, e) == [k |-> "if", c |-> c, t |-> t, e |-> e]
WhileS(c, body) == [k |-> "while", c |-> c, body |-> body]
ForS(init, cond, incr, body) == [k |-> "for", init |-> init, cond |-> cond, incr |-> incr, body |-> body]
BreakS == [k |-> "break"]
ContinueS == [k |-> "continue"]
ReturnS(e) == [k |-> "return", e |-> e]
VarD(x, init) == [k |-> "vardecl", name |-> x, init |-> init]
FunD(x, params, body) == [k |-> "fun", name |-> x, params |-> params, body |-> body]
MethodD(x, params, body) == [name |-> x, params |-> params, body |-> body]
ClassD(x, super, ms) == [k |-> "class", name |-> x, super |-> super, methods |-> ms]

\* A source: fam names the family it belongs to, decls is the program and
\* expect is what the language's semantics makes it print (where a family
\* gives one).
Src(fam, decls, expect) == [fam |-> fam, decls |-> decls, expect |-> expect]

\* the loop-control statement a loop program executes in its first iteration
Ctl(ctl, cond) ==
    CASE ctl = "break" -> <<IfS(cond, BreakS, None)>>
      [] ctl = "continue" -> <<IfS(cond, ContinueS, None)>>
      [] ctl = "none" -> <<>>

\* inner local declarations  var t1 = 5; var t2 = 6; ...
Inner(inner) == [j \in 1..inner |-> VarD("t" \o ToString(j), NumE(4 + j))]

\* while loop over i = 0, 1 whose body runs ctl from inside a nested block that
\* declared inner locals; every print statement prints the number of locals
\* that are in scope where it stands (d0 of them before the program text)
\*   var i = 0;
\*   while (i < 2) { i = i + 1; { var t1..; <if (i == 1) ctl;> print d + inner; } print d; }
\*   print d;
WhileText(ctl, inner, d0, isLocal) ==
    LET d == IF isLocal THEN d0 + 1 ELSE d0
    IN << VarD("i", NumE(0)),
          WhileS(BinE("<", NameE("i"), NumE(2)),
                 BlockS(<< ExprS(AssignE("i", BinE("+", NameE("i"), NumE(1)))),
                           BlockS(Inner(inner) \o Ctl(ctl, BinE("==", NameE("i"), NumE(1)))
                                      \o <<OutS(NumE(d + inner))>>),
                           OutS(NumE(d)) >>)),
          OutS(NumE(d)) >>

\*   for (var i = 0; i < 2; i = i + 1) { { var t1..; <if (i == 0) ctl;> print d0 + 1 + inner; } print d0 + 1; }
\*   print d0;
ForText(ctl, inner, d0) ==
    << ForS(VarD("i", NumE(0)), BinE("<", NameE("i"), NumE(2)),
            AssignE("i", BinE("+", NameE("i"), NumE(1))),
            BlockS(<< BlockS(Inner(inner) \o Ctl(ctl, BinE("==", NameE("i"), NumE(0)))
                                 \o <<OutS(NumE(d0 + 1 + inner))>>),
                      OutS(NumE(d0 + 1)) >>)),
       OutS(NumE(d0)) >>

\* the text at the top level, or as the body of  fun f(p) { ... }  f(3);
LoopDecls(kind, ctl, inner, inFun) ==
    LET text == IF kind = "while" THEN WhileText(ctl, inner, IF inFun THEN 1 ELSE 0, inFun)
                ELSE ForText(ctl, inner, IF inFun THEN 1 ELSE 0)
    IN IF inFun THEN << FunD("f", <<"p">>, text), ExprS(CallE(NameE("f"), <<NumE(3)>>)) >>
       ELSE text

LoopKinds == <<"while", "for">>
LoopCtls == <<"none", "break", "continue">>
MaxInner == 2

LoopSources ==
    [n \in 1..(2 * 3 * (MaxInner + 1) * 2) |->
        LET m == n - 1
            kind == LoopKinds[(m % 2) + 1]
            ctl == LoopCtls[((m \div 2) % 3) + 1]
            inner == (m \div 6) % (MaxInner + 1)
            inFun == (m \div (6 * (MaxInner + 1))) = 1
        IN Src("loop", LoopDecls(kind, ctl, inner, inFun), <<>>)]

\* loops that print each value of i and break when i reaches 1
\*   var i = 0; while (i < 3) { print i; if (i == 1) break; i = i + 1; }
\*   for (var i = 0; i < 3; i = i + 1) { print i; if (i == 1) break; }
BreakBody(step) ==
    BlockS(<<OutS(NameE("i")), IfS(BinE("==", NameE("i"), NumE(1)), BreakS, None)>> \o step)

BreakDecls(kind) ==
    IF kind = "while"
    THEN << VarD("i", NumE(0)),
            WhileS(BinE("<", NameE("i"), NumE(3)),
                   BreakBody(<<ExprS(AssignE("i", BinE("+", NameE("i"), NumE(1))))>>)) >>
    ELSE << ForS(VarD("i", NumE(0)), BinE("<", NameE("i"), NumE(3)),
                 AssignE("i", BinE("+", NameE("i"), NumE(1))), BreakBody(<<>>)) >>

BreakSources ==
    << Src("break", BreakDecls("while"), <<"0", "1">>),
       Src("break", BreakDecls("for"), <<"0", "1">>),
       Src("break", <<FunD("f", <<>>, BreakDecls("while")), ExprS(CallE(NameE("f"), <<>>))>>,
           <<"0", "1">>),
       Src("break", <<FunD("f", <<>>, BreakDecls("for")), ExprS(CallE(NameE("f"), <<>>))>>,
           <<"0", "1">>) >>

\* two closures over one local that is closed by the end of its block or by
\* the return of its function
\*   var x = v0; fun get() { return x; } fun set(v) { x = v; } g = get; s = set; x = x + 1;
ShareText(v0) ==
    << VarD("x", NumE(v0)),
       FunD("get", <<>>, <<ReturnS(NameE("x"))>>),
       FunD("set", <<"v">>, <<ExprS(AssignE("x", NameE("v")))>>),
       ExprS(AssignE("g", NameE("get"))),
       ExprS(AssignE("s", NameE("set"))),
       ExprS(AssignE("x", BinE("+", NameE("x"), NumE(1)))) >>

\*   var g; var s; { <text> }  or  fun make() { <text> } make();
\*   print g(); s(v1); print g(); s(v1 + 1); print g();
ShareDecls(mech, v0, v1) ==
    << VarD("g", None), VarD("s", None) >>
    \o (IF mech = "block" THEN <<BlockS(ShareText(v0))>>
        ELSE <<FunD("make", <<>>, ShareText(v0)), ExprS(CallE(NameE("make"), <<>>))>>)
    \o << OutS(CallE(NameE("g"), <<>>)),
          ExprS(CallE(NameE("s"), <<NumE(v1)>>)),
          OutS(CallE(NameE("g"), <<>>)),
          ExprS(CallE(NameE("s"), <<NumE(v1 + 1)>>)),
          OutS(CallE(NameE("g"), <<>>)) >>

ShareSrc(mech, v0, v1) ==
    Src("share", ShareDecls(mech, v0, v1), <<ToString(v0 + 1), ToString(v1), ToString(v1 + 1)>>)

ShareSources ==
    << ShareSrc("block", 1, 5), ShareSrc("block", 4, 0),
       ShareSrc("return", 1, 5), ShareSrc("return", 4, 0) >>

\* closures that capture several locals of one frame in an order that makes
\* captureUpvalue insert at the head, at the tail and in the middle of the list
\*   { var a = 1; var b = 2; var c = 3;
\*     fun f() { return c; } fun g() { return a; } fun h() { return b; } fun k() { return a; }
\*     print f() + g() + h() + k(); }
\*   fun outer() { var x = 1; fun mid() { fun inner() { return x; } return inner; } return mid; }
\*   print outer()()();
CaptureSources ==
    << Src("capture",
           << BlockS(<< VarD("a", NumE(1)), VarD("b", NumE(2)), VarD("c", NumE(3)),
                        FunD("f", <<>>, <<ReturnS(NameE("c"))>>),
                        FunD("g", <<>>, <<ReturnS(NameE("a"))>>),
                        FunD("h", <<>>, <<ReturnS(NameE("b"))>>),
                        FunD("k", <<>>, <<ReturnS(NameE("a"))>>),
                        OutS(BinE("+", BinE("+", BinE("+", CallE(NameE("f"), <<>>),
                                                      CallE(NameE("g"), <<>>)),
                                            CallE(NameE("h"), <<>>)),
                                  CallE(NameE("k"), <<>>))) >>) >>,
           <<"7">>),
       Src("capture",
           << FunD("outer", <<>>,
                   << VarD("x", NumE(1)),
                      FunD("mid", <<>>,
                           << FunD("inner", <<>>, <<ReturnS(NameE("x"))>>),
                              ReturnS(NameE("inner")) >>),
                      ReturnS(NameE("mid")) >>),
              OutS(CallE(CallE(CallE(NameE("outer"), <<>>), <<>>), <<>>)) >>,
           <<"1">>) >>

\* programs that end in a runtime error, or use classes, properties and natives
\*   nil.x;
\*   get(1, 2);
\*   has(1);
\*   zz;
\*   print nil + 1;
\*   nil();
\*   fun f(a) {} f();
\*   var g; { var x = 1; fun get() { return x; } g = get; zz; }
\*   class A { m() {} } class B < A { t() { super.m; print 1; } } B().t();
\*   class A {} class B < A { t() { super.nope; print 1; } } B().t();
\*   class A { m() { print 1; } } class B < A { m() { super.m(); print 2; } } B().m();
\*   class P { init() { this.v = 3; } } var p = P(); print p.v; print get(p, "v");
\*       set(p, "w", 4); print has(p, "w"); print p.w; print p.none;
ErrorSources ==
    << Src("error", <<ExprS(GetE(LitE("nil"), "x"))>>, <<>>),
       Src("error", <<ExprS(CallE(NameE("get"), <<NumE(1), NumE(2)>>))>>, <<>>),
       Src("error", <<ExprS(CallE(NameE("has"), <<NumE(1)>>))>>, <<>>),
       Src("error", <<ExprS(NameE("zz"))>>, <<>>),
       Src("error", <<OutS(BinE("+", LitE("nil"), NumE(1)))>>, <<>>),
       Src("error", <<ExprS(CallE(LitE("nil"), <<>>))>>, <<>>),
       Src("error", <<FunD("f", <<"a">>, <<>>), ExprS(CallE(NameE("f"), <<>>))>>, <<>>),
       Src("error",
           << VarD("g", None),
              BlockS(<< VarD("x", NumE(1)), FunD("get", <<>>, <<ReturnS(NameE("x"))>>),
                        ExprS(AssignE("g", NameE("get"))), ExprS(NameE("zz")) >>) >>,
           <<>>),
       Src("super",
           << ClassD("A", "", <<MethodD("m", <<>>, <<>>)>>),
              ClassD("B", "A", <<MethodD("t", <<>>, <<ExprS(SuperGetE("m")), OutS(NumE(1))>>)>>),
              ExprS(InvokeE(CallE(NameE("B"), <<>>), "t", <<>>)) >>,
           <<"1">>),
       Src("super",
           << ClassD("A", "", <<>>),
              ClassD("B", "A", <<MethodD("t", <<>>, <<ExprS(SuperGetE("nope")), OutS(NumE(1))>>)>>),
              ExprS(InvokeE(CallE(NameE("B"), <<>>), "t", <<>>)) >>,
           <<>>),
       Src("class",
           << ClassD("A", "", <<MethodD("m", <<>>, <<OutS(NumE(1))>>)>>),
              ClassD("B", "A", <<MethodD("m", <<>>, <<ExprS(SuperInvokeE("m", <<>>)),
                                                     OutS(NumE(2))>>)>>),
              ExprS(InvokeE(CallE(NameE("B"), <<>>), "m", <<>>)) >>,
           <<"1", "2">>),
       Src("class",
           << ClassD("P", "", <<MethodD("init", <<>>, <<ExprS(SetE(ThisE, "v", NumE(3)))>>)>>),
              VarD("p", CallE(NameE("P"), <<>>)),
              OutS(GetE(NameE("p"), "v")),
              OutS(CallE(NameE("get"), <<NameE("p"), StrE("v")>>)),
              ExprS(CallE(NameE("set"), <<NameE("p"), StrE("w"), NumE(4)>>)),
              OutS(CallE(NameE("has"), <<NameE("p"), StrE("w")>>)),
              OutS(GetE(NameE("p"), "w")),
              OutS(GetE(NameE("p"), "none")) >>,
           <<>>) >>

\* programs with a compile error after statements that compile
\*   var a = 1; print a; return 2;
\*   var a = 1; print a; while (true) { break; break; }
\*   print 1; break;
\*   print 1; continue;
\*   var a = 1; print a; { var b; var b; }
CompileErrorSources ==
    << Src("cerror", <<VarD("a", NumE(1)), OutS(NameE("a")), ReturnS(NumE(2))>>, <<>>),
       Src("cerror", <<VarD("a", NumE(1)), OutS(NameE("a")),
                       WhileS(LitE("true"), BlockS(<<BreakS, BreakS>>))>>, <<>>),
       Src("cerror", <<OutS(NumE(1)), BreakS>>, <<>>),
       Src("cerror", <<OutS(NumE(1)), ContinueS>>, <<>>),
       Src("cerror", <<VarD("a", NumE(1)), OutS(NameE("a")),
                       BlockS(<<VarD("b", None), VarD("b", None)>>)>>, <<>>) >>

\* programs a later interpret() call runs on the same VM
\*   print g();
\*   var a = 2; print a;
\*   var b = 3; print b; return 4;
ProbeSources ==
    << Src("probe", <<OutS(CallE(NameE("g"), <<>>))>>, <<>>),
       Src("probe", <<VarD("a", NumE(2)), OutS(NameE("a"))>>, <<"2">>),
       Src("cerror", <<VarD("b", NumE(3)), OutS(NameE("b")), ReturnS(NumE(4))>>, <<>>) >>

\* additions
\*   print "a" + "b";   print 1 + 2;   print "a" + 1;   print nil + "x";
\*   print true + "";   print "a" + "b" == "ab";   print 1 + 2 + "x" + 1 + 2;
\*   print true + nil;   print nil + 1;
\*   print 1 + "x";
AddSources ==
    << Src("add", <<OutS(BinE("+", StrE("a"), StrE("b")))>>, <<"ab">>),
       Src("add", <<OutS(BinE("+", NumE(1), NumE(2)))>>, <<"3">>),
       Src("add", <<OutS(BinE("+", StrE("a"), NumE(1)))>>, <<"a1">>),
       Src("add", <<OutS(BinE("+", LitE("nil"), StrE("x")))>>, <<"nilx">>),
       Src("add", <<OutS(BinE("+", LitE("true"), StrE("")))>>, <<"true">>),
       Src("add", <<OutS(BinE("==", BinE("+", StrE("a"), StrE("b")), StrE("ab")))>>, <<"true">>),
       Src("add", <<OutS(BinE("+", BinE("+", BinE("+", BinE("+", NumE(1), NumE(2)), StrE("x")),
                                        NumE(1)), NumE(2)))>>, <<"3x12">>),
       Src("adderror", <<OutS(BinE("+", LitE("true"), LitE("nil")))>>, <<>>),
       Src("adderror", <<OutS(BinE("+", LitE("nil"), NumE(1)))>>, <<>>),
       Src("addmixed", <<OutS(BinE("+", NumE(1), StrE("x")))>>, <<"1x">>) >>

\* class name < super { m() { print n; } }  (no superclass when super is "",
\* no method when m is "")
Klass(name, super, m, n) ==
    ClassD(name, super, IF m = "" THEN <<>> ELSE <<MethodD(m, <<>>, <<OutS(NumE(n))>>)>>)
\* B().m();   var f = B().m; f();   B();
CallM == <<ExprS(InvokeE(CallE(NameE("B"), <<>>), "m", <<>>))>>
GetM == <<VarD("f", GetE(CallE(NameE("B"), <<>>), "m")), ExprS(CallE(NameE("f"), <<>>))>>
New == <<ExprS(CallE(NameE("B"), <<>>))>>

\* method resolution in  class B < A
\*   class A { m() { print 1; } } class B < A { m() { print 2; } } B().m();
\*   class A { m() { print 1; } } class B < A {} B().m();
\*   the same two with  var f = B().m; f();
\*   class A { init() { print 1; } } class B < A { init() { print 2; } } B();
\*   class A { init() { print 1; } } class B < A {} B();
\*   class A { m() { print 1; } } class B < A {} class A { m() { print 3; } } B().m();
\*   class A { m() { print 1; } } class B < A { n() { print 2; } } B().m();
InheritSources ==
    << Src("inherit", <<Klass("A", "", "m", 1), Klass("B", "A", "m", 2)>> \o CallM, <<"2">>),
       Src("inherit", <<Klass("A", "", "m", 1), Klass("B", "A", "", 0)>> \o CallM, <<"1">>),
       Src("inherit", <<Klass("A", "", "m", 1), Klass("B", "A", "m", 2)>> \o GetM, <<"2">>),
       Src("inherit", <<Klass("A", "", "m", 1), Klass("B", "A", "", 0)>> \o GetM, <<"1">>),
       Src("inherit", <<Klass("A", "", "init", 1), Klass("B", "A", "init", 2)>> \o New, <<"2">>),
       Src("inherit", <<Klass("A", "", "init", 1), Klass("B", "A", "", 0)>> \o New, <<"1">>),
       Src("inherit", <<Klass("A", "", "m", 1), Klass("B", "A", "", 0), Klass("A", "", "m", 3)>>
                          \o CallM, <<"1">>),
       Src("inherit", <<Klass("A", "", "m", 1), Klass("B", "A", "n", 2)>> \o CallM, <<"1">>) >>

\* calls of a class
\*   class P {} var p = P(); print p;
\*   class P { init(a) { this.v = a; } } var p = P(3); print p.v;
\*   class P { init(a) { this.v = a; return; } } var p = P(3); print p.v;
\*   class P { init(a) { return; this.v = a; } } var p = P(3); print has(p, "v");
\*   class P {} var p = P(1);
Init_(body) == ClassD("P", "", <<MethodD("init", <<"a">>, body)>>)
SetV == ExprS(SetE(ThisE, "v", NameE("a")))
ConstructSources ==
    << Src("construct", <<ClassD("P", "", <<>>), VarD("p", CallE(NameE("P"), <<>>)),
                          OutS(NumE(0))>>, <<"0">>),
       Src("construct", <<Init_(<<SetV>>), VarD("p", CallE(NameE("P"), <<NumE(3)>>)),
                          OutS(GetE(NameE("p"), "v"))>>, <<"3">>),
       Src("construct", <<Init_(<<SetV, ReturnS(None)>>), VarD("p", CallE(NameE("P"), <<NumE(3)>>)),
                          OutS(GetE(NameE("p"), "v"))>>, <<"3">>),
       Src("construct", <<Init_(<<ReturnS(None), SetV>>), VarD("p", CallE(NameE("P"), <<NumE(3)>>)),
                          OutS(CallE(NameE("has"), <<NameE("p"), StrE("v")>>))>>, <<"false">>),
       Src("constructerror", <<ClassD("P", "", <<>>), VarD("p", CallE(NameE("P"), <<NumE(1)>>))>>,
           <<>>) >>

\* super.name that is not called
\*   class A { m() { print 1; } } class B < A { t() { var f = super.m; f(); } } B().t();
\*   class A {} class B < A { t() { var f = super.m; print 2; } } B().t();
SuperGetSources ==
    << Src("superget",
           << Klass("A", "", "m", 1),
              ClassD("B", "A", <<MethodD("t", <<>>, <<VarD("f", SuperGetE("m")),
                                                     ExprS(CallE(NameE("f"), <<>>))>>)>>),
              ExprS(InvokeE(CallE(NameE("B"), <<>>), "t", <<>>)) >>,
           <<"1">>),
       Src("superget",
           << ClassD("A", "", <<>>),
              ClassD("B", "A", <<MethodD("t", <<>>, <<VarD("f", SuperGetE("m")),
                                                     OutS(NumE(2))>>)>>),
              ExprS(InvokeE(CallE(NameE("B"), <<>>), "t", <<>>)) >>,
           <<>>) >>

\* o.m(args), compiled to OP_INVOKE, and (o.m)(args), compiled to
\* OP_GET_PROPERTY and OP_CALL
Fused(args) == ExprS(InvokeE(NameE("o"), "m", args))
Split(args) == ExprS(CallE(GetE(NameE("o"), "m"), args))
\* class P { m(a) { print a; } }   and   var o = P();
ClassP == ClassD("P", "", <<MethodD("m", <<"a">>, <<OutS(NameE("a"))>>)>>)
NewO == VarD("o", CallE(NameE("P"), <<>>))
\* o.m = e;
SetM(e) == ExprS(SetE(NameE("o"), "m", e))
\* the programs end with o.m(...) or with (o.m)(...)
\*   class P { m(a) { print a; } } var o = P(); o.m(1);
\*   class P { m(a) { print a; } } fun f(a) { print a + 1; } var o = P(); o.m = f; o.m(1);
\*   class P {} var o = P(); o.m(1);
\*   var o = 1; o.m();
\*   class P { m(a) { print a; } } var o = P(); o.m = 3; o.m();
\*   class P { m(a) { print a; } } var o = P(); o.m();
\*   class P { m(a) { print a; } } var o = P(); o.m = P; o.m(); print 4;
\*   class P { m(a) { print a; } } var o = P(); o.m = clock; o.m(); print 5;
InvokePrograms(last(_)) ==
    << Src("invoke", <<ClassP, NewO, last(<<NumE(1)>>)>>, <<"1">>),
       Src("invoke", <<ClassP, FunD("f", <<"a">>, <<OutS(BinE("+", NameE("a"), NumE(1)))>>), NewO,
                       SetM(NameE("f")), last(<<NumE(1)>>)>>, <<"2">>),
       Src("invokeerror", <<ClassD("P", "", <<>>), NewO, last(<<NumE(1)>>)>>, <<>>),
       Src("invokeerror", <<VarD("o", NumE(1)), last(<<>>)>>, <<>>),
       Src("invokeerror", <<ClassP, NewO, SetM(NumE(3)), last(<<>>)>>, <<>>),
       Src("invokeerror", <<ClassP, NewO, last(<<>>)>>, <<>>),
       Src("invoke", <<ClassP, NewO, SetM(NameE("P")), last(<<>>), OutS(NumE(4))>>, <<"4">>),
       Src("invoke", <<ClassP, NewO, SetM(NameE("clock")), last(<<>>), OutS(NumE(5))>>, <<"5">>) >>
InvokeSources == InvokePrograms(Fused) \o InvokePrograms(Split)

\* arrays
\*   var a = [10, 20, 30]; print size(a);
\*   var a = [7]; print a[0];
\*   print size([]);
\*   var a = [10, 20, 30]; a[1] = 99; print a[0] + a[1] + a[2]; print size(a);
Three == VarD("a", ArrayE(<<NumE(10), NumE(20), NumE(30)>>))
At(i) == SubscriptE(NameE("a"), <<NumE(i)>>)
SizeOf(e) == OutS(CallE(NameE("size"), <<e>>))
ArraySources ==
    << Src("array", <<Three, SizeOf(NameE("a"))>>, <<"3">>),
       Src("array", <<VarD("a", ArrayE(<<NumE(7)>>)), OutS(At(0))>>, <<"7">>),
       Src("array", <<SizeOf(ArrayE(<<>>))>>, <<"0">>),
       Src("array", <<Three, ExprS(SubscriptSetE(NameE("a"), <<NumE(1)>>, NumE(99))),
                      OutS(BinE("+", BinE("+", At(0), At(1)), At(2))), SizeOf(NameE("a"))>>,
           <<"139", "3">>) >>

\* fields through the instructions and through the natives; each program
\* starts with  class P {} var o = P();
\*   print has(o, "f"); o.f = 3; print o.f; print get(o, "f"); print has(o, "f");
\*   set(o, "f", 4); print o.f; print get(o, "f"); print has(o, "f");
\*   o.f = 1; print has(o, 1); print has(o, nil);
\*   o.f = 1; set(o, "f", 2); print o.f; o.f = 5; print get(o, "f");
\*   get(o, "f");
\*   o.g = 1; print get(o, "f");
OnO(f, args) == CallE(NameE(f), <<NameE("o")>> \o args)
SetF(n) == ExprS(SetE(NameE("o"), "f", NumE(n)))
OnP(fam, body, expect) == Src(fam, <<ClassD("P", "", <<>>), NewO>> \o body, expect)
FieldSources ==
    << OnP("field", <<OutS(OnO("has", <<StrE("f")>>)), SetF(3), OutS(GetE(NameE("o"), "f")),
                      OutS(OnO("get", <<StrE("f")>>)), OutS(OnO("has", <<StrE("f")>>))>>,
           <<"false", "3", "3", "true">>),
       OnP("field", <<ExprS(OnO("set", <<StrE("f"), NumE(4)>>)), OutS(GetE(NameE("o"), "f")),
                      OutS(OnO("get", <<StrE("f")>>)), OutS(OnO("has", <<StrE("f")>>))>>,
           <<"4", "4", "true">>),
       OnP("field", <<SetF(1), OutS(OnO("has", <<NumE(1)>>)), OutS(OnO("has", <<LitE("nil")>>))>>,
           <<"false", "false">>),
       OnP("field", <<SetF(1), ExprS(OnO("set", <<StrE("f"), NumE(2)>>)), OutS(GetE(NameE("o"), "f")),
                      SetF(5), OutS(OnO("get", <<StrE("f")>>))>>,
           <<"2", "5">>),
       OnP("fieldmissing", <<ExprS(OnO("get", <<StrE("f")>>))>>, <<>>),
       OnP("fieldmissing", <<ExprS(SetE(NameE("o"), "g", NumE(1))), OutS(OnO("get", <<StrE("f")>>))>>,
           <<>>) >>

\* getTypeName and toString
\*   print getTypeName(1) == "number";   and so on for true, nil, "s"
\*   class P {} print getTypeName(P) == "class";
\*   class P {} print getTypeName(P()) == "P";
\*   print toString(getTypeName(1)) == getTypeName(1);   and so on
TypeOf(e) == CallE(NameE("getTypeName"), <<e>>)
IsNamed(e, name) == OutS(BinE("==", TypeOf(e), StrE(name)))
Fixed(e) == OutS(BinE("==", CallE(NameE("toString"), <<TypeOf(e)>>), TypeOf(e)))
TypeNameSources ==
    << Src("typename", <<IsNamed(NumE(1), "number")>>, <<"true">>),
       Src("typename", <<IsNamed(LitE("true"), "boolean")>>, <<"true">>),
       Src("typename", <<IsNamed(LitE("nil"), "nil")>>, <<"true">>),
       Src("typename", <<IsNamed(StrE("s"), "string")>>, <<"true">>),
       Src("typename", <<ClassD("P", "", <<>>), IsNamed(NameE("P"), "class")>>, <<"true">>),
       Src("typename", <<ClassD("P", "", <<>>), IsNamed(CallE(NameE("P"), <<>>), "P")>>, <<"true">>),
       Src("typestring", <<Fixed(NumE(1))>>, <<"true">>),
       Src("typestring", <<Fixed(LitE("nil"))>>, <<"true">>),
       Src("typestring", <<ClassD("P", "", <<>>), Fixed(CallE(NameE("P"), <<>>))>>, <<"true">>) >>

\* the programs given to a VM whose embedder has defined the native fail
\*   fail();      zz;      print 1;
\* the operands the equality programs compare: nil, the booleans, two numbers,
\* two strings
Operands == <<LitE("nil"), LitE("true"), LitE("false"), NumE(0), NumE(1), StrE("a"), StrE("")>>
\* two literals denote the same value (a string literal denotes the interned object)
SameLiteral(a, b) == a.k = b.k /\ a = b
\* print a == x; print a != x; for every operand x
EqualP(a) ==
    Src("equal",
        [i \in 1..(2 * Len(Operands)) |->
            OutS(BinE(IF i % 2 = 1 THEN "==" ELSE "!=", a, Operands[(i + 1) \div 2]))],
        [i \in 1..(2 * Len(Operands)) |->
            IF SameLiteral(a, Operands[(i + 1) \div 2]) = (i % 2 = 1) THEN "true" ELSE "false"])
\* objects that are not strings: a function against itself, another function,
\* nil and a number
EqualSources ==
    [k \in 1..Len(Operands) |-> EqualP(Operands[k])]
    \o << Src("equal",
              << FunD("f", <<>>, <<>>), FunD("g", <<>>, <<>>),
                 OutS(BinE("==", NameE("f"), NameE("f"))), OutS(BinE("!=", NameE("f"), NameE("f"))),
                 OutS(BinE("==", NameE("f"), NameE("g"))), OutS(BinE("!=", NameE("f"), NameE("g"))),
                 OutS(BinE("==", NameE("f"), LitE("nil"))), OutS(BinE("!=", NameE("f"), NumE(0))) >>,
              <<"true", "false", "false", "true", "false", "true">>) >>

\* fun f() { f(); } f();  and calls that pass one argument too many or too few
CallSources ==
    << Src("overflow", <<FunD("f", <<>>, <<ExprS(CallE(NameE("f"), <<>>))>>),
                         ExprS(CallE(NameE("f"), <<>>))>>, <<>>),
       Src("arity", <<FunD("f", <<>>, <<>>), ExprS(CallE(NameE("f"), <<NumE(1)>>))>>, <<>>),
       Src("arity", <<FunD("f", <<"a", "b">>, <<>>), ExprS(CallE(NameE("f"), <<NumE(1)>>))>>, <<>>) >>

\* fun f() { var v1; ... var vn; }
LocalsP(n) ==
    Src("locals", <<FunD("f", <<>>, [i \in 1..n |-> VarD("v" \o ToString(i), None)])>>, <<>>)
LocalsSources == <<LocalsP(UINT8_COUNT - 1), LocalsP(UINT8_COUNT), LocalsP(UINT8_COUNT + 1)>>

\* the name gk
G(k) == "g" \o ToString(k)
\* var g1 = 1; ... var g256 = 56; take the constants 0..255 of the script; the
\* statements after them name constants from 256 on
ConstantsSources ==
    << Src("constants",
           [k \in 1..UINT8_COUNT |-> VarD(G(k), NumE(k % 100))]
           \o << VarD("h", StrE("s")), OutS(NameE("h")),
                 ExprS(AssignE("h", NameE(G(UINT8_COUNT)))), OutS(NameE("h")), OutS(NameE(G(1))),
                 FunD("f", <<>>, <<OutS(NumE(7))>>), ExprS(CallE(NameE("f"), <<>>)),
                 ClassD("A", "", <<MethodD("m", <<>>, <<OutS(NumE(8))>>)>>),
                 VarD("a", CallE(NameE("A"), <<>>)),
                 ExprS(SetE(NameE("a"), "x", NumE(3))), OutS(GetE(NameE("a"), "x")),
                 ExprS(InvokeE(NameE("a"), "m", <<>>)) >>,
           <<"s", "56", "1", "7", "3", "8">>),
       Src("constants",
           << ClassD("A", "", <<MethodD("m", <<>>, <<OutS(NumE(8))>>)>>),
              ClassD("B", "A",
                     <<MethodD("t", <<>>,
                               [k \in 1..UINT8_COUNT |-> ExprS(StrE(G(k)))]
                               \o <<ExprS(SuperInvokeE("m", <<>>)), OutS(NumE(9))>>)>>),
              ExprS(InvokeE(CallE(NameE("B"), <<>>), "t", <<>>)) >>,
           <<"8", "9">>),
       Src("constantsget",
           << ClassD("A", "", <<MethodD("m", <<>>, <<>>)>>),
              ClassD("B", "A",
                     <<MethodD("t", <<>>,
                               [k \in 1..UINT8_COUNT |-> ExprS(StrE(G(k)))]
                               \o <<ExprS(SuperGetE("m"))>>)>>),
              ExprS(InvokeE(CallE(NameE("B"), <<>>), "t", <<>>)) >>,
           <<>>) >>

\* programs with compile errors; expect is the diagnostics of the compiler
\*   print this + this; print 1;      print this; print this;
\*   return this;                     print 1; print this; print 2;
PanicSources ==
    << Src("panic", <<OutS(BinE("+", ThisE, ThisE)), OutS(NumE(1))>>,
           <<"can't use 'this' outside of a class.">>),
       Src("panic", <<OutS(ThisE), OutS(ThisE)>>,
           <<"can't use 'this' outside of a class.", "can't use 'this' outside of a class.">>),
       Src("panic", <<ReturnS(ThisE)>>, <<"Can't return value from top-level code.">>),
       Src("panic", <<OutS(NumE(1)), OutS(ThisE), OutS(NumE(2))>>,
           <<"can't use 'this' outside of a class.">>) >>

\* assignments to what is not a target; expect is the compiler's diagnostics
\*   var a = 1; var b = 2; a + b = 3;      fun f() {} f() = 3;
\*   1 = 2;                                var a = 1; print a + 1 = 2;
InvalidAssignSources ==
    << Src("invalidassign",
           << VarD("a", NumE(1)), VarD("b", NumE(2)),
              ExprS(InvalidAssignE(BinE("+", NameE("a"), NameE("b")), NumE(3))) >>,
           <<"Invalid assignment target.">>),
       Src("invalidassign",
           << FunD("f", <<>>, <<>>), ExprS(InvalidAssignE(CallE(NameE("f"), <<>>), NumE(3))) >>,
           <<"Invalid assignment target.">>),
       Src("invalidassign", <<ExprS(InvalidAssignE(NumE(1), NumE(2)))>>,
           <<"Invalid assignment target.">>),
       Src("invalidassign",
           << VarD("a", NumE(1)), OutS(InvalidAssignE(BinE("+", NameE("a"), NumE(1)), NumE(2))) >>,
           <<"Invalid assignment target.">>) >>

\* while (false) body
Never(body) == WhileS(LitE("false"), BlockS(body))
\* loops with break statements; expect is the compiler's diagnostics
\*   while (false) { break; break; }
\*   while (false) { while (false) { break; } break; }
\*   while (false) { break; while (false) { break; } }
\*   while (false) { break; } while (false) { break; }
\*   while (false) { break; while (false) { break; } break; }
\*   for (; false;) { break; }     for (; false;) { break; break; }
\*   fun f() { while (false) { break; } while (false) { break; } }
BreaksSources ==
    << Src("breaks", <<Never(<<BreakS, BreakS>>)>>, <<"Too many break statements in loop.">>),
       Src("breaks", <<Never(<<Never(<<BreakS>>), BreakS>>)>>, <<>>),
       Src("breaks", <<Never(<<BreakS, Never(<<BreakS>>)>>)>>, <<>>),
       Src("breaks", <<Never(<<BreakS>>), Never(<<BreakS>>)>>, <<>>),
       Src("breaks", <<Never(<<BreakS, Never(<<BreakS>>), BreakS>>)>>,
           <<"Too many break statements in loop.">>),
       Src("breaks", <<ForS(None, LitE("false"), None, BlockS(<<BreakS>>))>>, <<>>),
       Src("breaks", <<ForS(None, LitE("false"), None, BlockS(<<BreakS, BreakS>>))>>,
           <<"Too many break statements in loop.">>),
       Src("breaks", <<FunD("f", <<>>, <<Never(<<BreakS>>), Never(<<BreakS>>)>>)>>, <<>>) >>

\* the values the logic programs test: the literal, what print writes for it,
\* and whether the language counts it as false
Tested ==
    << [e |-> LitE("nil"), text |-> "nil", falsey |-> TRUE],
       [e |-> LitE("false"), text |-> "false", falsey |-> TRUE],
       [e |-> NumE(0), text |-> "0", falsey |-> TRUE],
       [e |-> StrE(""), text |-> "", falsey |-> TRUE],
       [e |-> LitE("true"), text |-> "true", falsey |-> FALSE],
       [e |-> NumE(1), text |-> "1", falsey |-> FALSE],
       [e |-> StrE("s"), text |-> "s", falsey |-> FALSE] >>
\* the right operands: a falsey value and two truthy ones
Rights == <<Tested[2], Tested[6], Tested[7]>>
\*   var n = "u"; print a and (n = b); print n;     (or in place of and)
LogicP(op, a, b) ==
    Src("logic",
        << VarD("n", StrE("u")),
           OutS([k |-> op, l |-> a.e, r |-> AssignE("n", b.e)]),
           OutS(NameE("n")) >>,
        IF a.falsey = (op = "and") THEN <<a.text, "u">> ELSE <<b.text, b.text>>)
LogicSources ==
    [n \in 1..(2 * Len(Tested) * Len(Rights)) |->
        LogicP(IF (n - 1) % 2 = 0 THEN "and" ELSE "or",
               Tested[(((n - 1) \div 2) % Len(Tested)) + 1],
               Rights[((n - 1) \div (2 * Len(Tested))) + 1])]

\* programs that define globals and fail at different places
\*   var a = 1; var b = "x";
\*   var a = 1; var b = "x"; var c = 3; zz = 2;
\*   var a = 1; print zz; var b = "x";
GlobalsSources ==
    << Src("globals", <<VarD("a", NumE(1)), VarD("b", StrE("x"))>>, <<>>),
       Src("globals", <<VarD("a", NumE(1)), VarD("b", StrE("x")), VarD("c", NumE(3)),
                        ExprS(AssignE("zz", NumE(2)))>>, <<>>),
       Src("globals", <<VarD("a", NumE(1)), OutS(NameE("zz")), VarD("b", StrE("x"))>>, <<>>) >>
\* what the next interpret() call on the same VM reads
\*   print a;    print b;    print zz;    print clock;
ReadsGlobal(name) == <<OutS(NameE(name))>>
GlobalsProbeSources ==
    << Src("globalsprobe", ReadsGlobal("a"), <<>>),
       Src("globalsprobe", ReadsGlobal("b"), <<>>),
       Src("globalsprobe", ReadsGlobal("zz"), <<>>),
       Src("globalsprobe", ReadsGlobal("clock"), <<>>) >>

\* objects that are no strings: a native, a function, a class and an instance
TestedObjects ==
    << [e |-> NameE("clock"), falsey |-> FALSE], [e |-> NameE("f"), falsey |-> FALSE],
       [e |-> NameE("K"), falsey |-> FALSE], [e |-> CallE(NameE("K"), <<>>), falsey |-> FALSE] >>
\*   fun f() {}  class K {}
\*   print !v;  if (v) print "t"; else print "f";
\*   var w = v; while (w) { print "w"; w = nil; }
\*   for (var x = v; x; x = nil) print "l";
TruthP(v) ==
    Src("truth",
        << FunD("f", <<>>, <<>>), ClassD("K", "", <<>>),
           OutS(NotE(v.e)),
           IfS(v.e, OutS(StrE("t")), OutS(StrE("f"))),
           VarD("w", v.e),
           WhileS(NameE("w"), BlockS(<<OutS(StrE("w")), ExprS(AssignE("w", LitE("nil")))>>)),
           ForS(VarD("x", v.e), NameE("x"), AssignE("x", LitE("nil")), OutS(StrE("l"))) >>,
        IF v.falsey THEN <<"true", "f">> ELSE <<"false", "t", "w", "l">>)
TruthSources ==
    [n \in 1..(Len(Tested) + Len(TestedObjects)) |->
        TruthP(IF n <= Len(Tested) THEN Tested[n] ELSE TestedObjects[n - Len(Tested)])]

\* functions nested in methods of classes, with and without an error inside
\*   class A { m() { fun g() { super.f; } } }
\*   class A { m() { fun g() { return 1; } return g; } } print A().m()();
\*   class B < B {}
\*   class A {} class B < A { m() { fun g() { 1 = 2; } } } print 1;
NestingSources ==
    << Src("nesting",
           <<ClassD("A", "", <<MethodD("m", <<>>,
                 <<FunD("g", <<>>, <<ExprS(SuperGetE("f"))>>)>>)>>)>>,
           <<"Can't use 'super' in a class with no superclass.">>),
       Src("nesting",
           <<ClassD("A", "", <<MethodD("m", <<>>,
                 <<FunD("g", <<>>, <<ReturnS(NumE(1))>>), ReturnS(NameE("g"))>>)>>),
             OutS(CallE(InvokeE(CallE(NameE("A"), <<>>), "m", <<>>), <<>>))>>,
           <<>>),
       Src("nesting", <<ClassD("B", "B", <<>>)>>, <<"A class can't inherit from itself.">>),
       Src("nesting",
           <<ClassD("A", "", <<>>),
             ClassD("B", "A", <<MethodD("m", <<>>,
                 <<FunD("g", <<>>, <<ExprS(InvalidAssignE(NumE(1), NumE(2)))>>)>>)>>),
             OutS(NumE(1))>>,
           <<"Invalid assignment target.">>) >>

HostSources ==
    << Src("host", <<ExprS(CallE(NameE("fail"), <<>>))>>, <<>>),
       Src("hostprobe", <<ExprS(NameE("zz"))>>, <<>>),
       Src("hostprobe", <<OutS(NumE(1))>>, <<"1">>) >>

Sources ==
    ProbeSources \o LoopSources \o BreakSources \o ShareSources \o CaptureSources
        \o ErrorSources \o CompileErrorSources \o AddSources \o InheritSources
        \o ConstructSources \o SuperGetSources
        \o InvokeSources \o ArraySources
        \o FieldSources \o TypeNameSources \o HostSources
        \o EqualSources \o CallSources \o LocalsSources
        \o ConstantsSources \o PanicSources
        \o InvalidAssignSources \o BreaksSources \o LogicSources
        \o GlobalsSources \o GlobalsProbeSources \o TruthSources \o NestingSources

\* the sources the call number n may be given: any source first, a probe afterwards
Inputs(n) == IF n = 1 THEN 1..Len(Sources) ELSE 1..Len(ProbeSources)
\* the sources given after a program of the globals family
GlobalsInputs == {s \in 1..Len(Sources) : Sources[s].fam = "globalsprobe"}
HostInputs == {s \in 1..Len(Sources) : Sources[s].fam \in {"host", "hostprobe"}}

\* what the memory in front of Compiler.loops may hold
Below == [start : {0, 1}, breakCount : {0, 1}]

\* ------------------------------------------------------------------ state
\* vm      the VM singleton; with it compiler.c's current and currentClass,
\*         as the lengths of the chains they head (0 is NULL)
\* frame   run()'s local CallFrame pointer, as an index into vm.frames
\* pc      "idle" between interpret() calls, "running" inside run(),
\*         "undefined" once the process has left defined behaviour for good,
\*         "newArray" inside newArray(), at its GROW_ARRAY
\* result  the InterpretResult of the last interpret() call
\* calls   number of interpret() calls made
\* src     the source given to the last interpret() call (index into Sources)
VARIABLES vm, frame, pc, result, calls, src

vars == <<vm, frame, pc, result, calls, src>>

\* the state main() reaches after initVM(); base is what ALLOCATE returned
InitVM(base) ==
    LET v0 == [cells |-> <<>>, stack |-> base, stackTop |-> base, frames |-> <<>>,
               frameCount |-> 0, globals |-> EmptyTable, strings |-> EmptyTable,
               openUpvalues |-> 0, hasError |-> FALSE, heap |-> <<>>, initString |-> 0,
               current |-> 0, currentClass |-> 0,
               ub |-> FALSE, out |-> <<>>, err |-> <<>>]
        cs == copyString(v0, "init")
    IN initializeNatives([cs.vm EXCEPT !.initString = cs.ref])

Init ==
    /\ \E base \in Bases : vm = InitVM(base)
    /\ frame = 0
    /\ pc = "idle"
    /\ result = "NONE"
    /\ calls = 0
    /\ src = 0

\* ------------------------------------------------------- the ways a step ends
\* break: back to the top of the dispatch loop
Continue(v) == vm' = v /\ UNCHANGED <<frame, pc, result, calls, src>>
\* frame = &vm.frames[vm.frameCount - 1]; break
Reframe(v) == vm' = v /\ frame' = v.frameCount /\ UNCHANGED <<pc, result, calls, src>>
\* return r
Return(v, r) == vm' = v /\ pc' = "idle" /\ result' = r /\ frame' = 0 /\ UNCHANGED <<calls, src>>
\* a dereference of a pointer that is not valid
Undefined == pc' = "undefined" /\ UNCHANGED <<vm, frame, result, calls, src>>

\* ----------------------------------------------------------- run(): decoding
FrameOk == frame \in 1..Len(vm.frames)
Fn == vm.heap[vm.heap[vm.frames[frame].closure].function]
Ip == vm.frames[frame].ip
\* the dispatch loop stands in front of a complete instruction
Dispatch == pc = "running" /\ FrameOk /\ Ip >= 0 /\ Ip < Len(Fn.code)
Instr == Fn.code[Ip + 1]
Byte(n) == IF Ip + 1 + n <= Len(Fn.code) THEN Fn.code[Ip + 1 + n] ELSE 0
Short(n) == Byte(n) * 256 + Byte(n + 1)
\* the state after the instruction and n operand bytes were read
Read(n) == [vm EXCEPT !.frames[frame].ip = @ + 1 + n]
\* operand of an instruction that has a _LONG form, and the operand's width
Operand(long) == IF Instr = long THEN Short(1) ELSE Byte(1)
Width(long) == IF Instr = long THEN 2 ELSE 1
ConstOk(long) == Operand(long) < Len(Fn.constants)
READ_CONSTANT(long) == Fn.constants[Operand(long) + 1]
StringOk(long) == ConstOk(long) /\ IS_STRING(vm, READ_CONSTANT(long))
READ_STRING(long) == READ_CONSTANT(long).as

InterpretResult(ok) == IF ok THEN "OK" ELSE "RUNTIME_ERROR"

\* a Value that can be dereferenced as an object of heap type t
Ref(v, t) == IsObjType(vm, v, t)
\* a Value the printing and comparing code can read
Readable(v) == ~IS_OBJ(v) \/ v.as \in 1..Len(vm.heap)

\* concatenate() of vm.c
\* concatenate() up to ALLOCATE(char, length + 1): the two strings it is going
\* to read, and the VM as the allocator finds it
concatenateOperands(v, g) ==
    LET bVal == peek(v, 0, g)
        aVal == peek(v, 1, g)
        a == IF IS_STRING(v, aVal) THEN [vm |-> v, ref |-> aVal.as] ELSE toString(v, aVal)
        b == IF IS_STRING(v, bVal) THEN [vm |-> a.vm, ref |-> bVal.as] ELSE toString(a.vm, bVal)
    IN [vm |-> b.vm, a |-> a.ref, b |-> b.ref]

\* concatenate() with the operands taken in the other order
concatenateSwapped(v, g) ==
    LET o == concatenateOperands(v, g)
        r == takeString(o.vm, Content(o.vm, o.b) \o Content(o.vm, o.a),
                        o.vm.heap[o.a].length + o.vm.heap[o.b].length)
    IN push(pop(pop(r.vm)), OBJ_VAL(r.ref))

concatenate(v, g) ==
    LET o == concatenateOperands(v, g)
        r == takeString(o.vm, Content(o.vm, o.a) \o Content(o.vm, o.b),
                        o.vm.heap[o.a].length + o.vm.heap[o.b].length)
    IN push(pop(pop(r.vm)), OBJ_VAL(r.ref))

\* ------------------------------------------------------- collector (spec 4.6)
\* the heap objects a Value and a table refer to
markValue(v, value) ==
    IF IS_OBJ(value) /\ value.as \in 1..Len(v.heap) THEN {value.as} ELSE {}
markTable(v, table) ==
    (DOMAIN table) \cup UNION {markValue(v, table[k]) : k \in DOMAIN table}
markObject(object) == IF object = 0 THEN {} ELSE {object}

\* the open upvalues from upvalue on, along their next links
RECURSIVE openUpvalueList(_, _)
openUpvalueList(v, upvalue) ==
    IF upvalue = 0 THEN {} ELSE {upvalue} \cup openUpvalueList(v, v.heap[upvalue].next)

\* the roots: the value stack below stackTop, the closure of every active
\* frame, the open upvalues, the globals and initString (no compiler is
\* active while run() executes)
markRoots(v) ==
    UNION {markValue(v, LiveStack(v)[i]) : i \in DOMAIN LiveStack(v)}
    \cup {v.frames[i].closure : i \in 1..v.frameCount}
    \cup openUpvalueList(v, v.openUpvalues)
    \cup markTable(v, v.globals)
    \cup markObject(v.initString)

\* the references the collector follows out of one object
blackenObject(v, object) ==
    LET o == v.heap[object]
    IN CASE o.type = "function" ->
              markObject(o.name) \cup UNION {markValue(v, o.constants[i]) : i \in DOMAIN o.constants}
         [] o.type = "closure" ->
              {o.function} \cup UNION {markObject(o.upvalues[i]) : i \in DOMAIN o.upvalues}
         [] o.type = "upvalue" -> markValue(v, o.closed)
         [] o.type = "class" -> markObject(o.name) \cup markTable(v, o.methods)
         [] o.type = "instance" -> {o.klass} \cup markTable(v, o.fields)
         [] o.type = "bound_method" -> markValue(v, o.reciever) \cup {o.method}
         [] o.type = "array" -> UNION {markValue(v, o.values[i]) : i \in DOMAIN o.values}
         [] OTHER -> {}

\* the objects marked once the gray worklist is empty
RECURSIVE traceReferences(_, _)
traceReferences(v, marked) ==
    IF UNION {blackenObject(v, object) : object \in marked} \subseteq marked
    THEN marked
    ELSE traceReferences(v, marked \cup UNION {blackenObject(v, object) : object \in marked})

\* the objects a collection that starts in this state leaves alive
Reachable(v) == traceReferences(v, markRoots(v))

\* --------------------------------------------------------------- interpret()
\* interpret() from the test of the function that compile() returned
Interpreted(cr, nd) ==
    IF cr.function = 0
    THEN vm' = cr.vm /\ pc' = "idle" /\ result' = "COMPILE_ERROR" /\ frame' = 0
    ELSE LET v1 == push(cr.vm, OBJ_VAL(cr.function))
             closure == NewRef(v1)
             v2 == push(pop(newClosure(v1, cr.function)), OBJ_VAL(closure))
             cv == callValue(v2, OBJ_VAL(closure), 0, nd)
         IN vm' = cv.vm /\ pc' = "running" /\ result' = "NONE" /\ frame' = cv.vm.frameCount

\* the embedding program has defined its native
Registered == \E k \in DOMAIN vm.globals : Content(vm, k) = "fail"

\* defineNative("fail", f) called by the embedding program after initVM(),
\* for a NativeFn f that returns NULL_VAL without reporting an error
DefineNative ==
    /\ pc = "idle" /\ calls = 0 /\ ~Registered
    /\ vm' = defineNative(vm, "fail", "silent")
    /\ UNCHANGED <<frame, pc, result, calls, src>>

Interpret(nd) ==
    /\ pc = "idle"
    /\ calls < MaxCalls
    /\ \E s \in IF Registered THEN HostInputs
                ELSE IF src # 0 /\ Sources[src].fam = "globals" THEN GlobalsInputs
                     ELSE Inputs(calls + 1),
          below \in Below :
          /\ calls' = calls + 1
          /\ src' = s
          /\ \E cr \in {compile([vm EXCEPT !.out = <<>>, !.err = <<>>], Sources[s].decls, below)} :
                Interpreted(cr, nd)

\* ------------------------------------------------ run(): one action per case
OpConstant(nd) ==
    /\ Dispatch /\ Instr \in {OP_CONSTANT, OP_CONSTANT_LONG}
    /\ IF ~ConstOk(OP_CONSTANT_LONG) THEN Undefined
       ELSE Continue(push(Read(Width(OP_CONSTANT_LONG)), READ_CONSTANT(OP_CONSTANT_LONG)))

OpByteNum(nd) ==
    /\ Dispatch /\ Instr = OP_BYTE_NUM
    /\ Continue(push(Read(1), NUMBER_VAL(Byte(1))))

OpLiteral(nd) ==
    /\ Dispatch /\ Instr \in {OP_NIL, OP_TRUE, OP_FALSE}
    /\ Continue(push(Read(0), CASE Instr = OP_NIL -> NIL_VAL
                                [] Instr = OP_TRUE -> BOOL_VAL(TRUE)
                                [] Instr = OP_FALSE -> BOOL_VAL(FALSE)))

OpEq(nd) ==
    /\ Dispatch /\ Instr \in {OP_EQ, OP_NEQ}
    /\ LET b == peek(vm, 0, nd.g)
           a == peek(vm, 1, nd.g)
       IN Continue(push(pop(pop(Read(0))),
                        BOOL_VAL(IF Instr = OP_EQ THEN valuesEqual(a, b) ELSE valuesNotEqual(a, b))))

\* the cases written with the BINARY_OP macro
OpBinary(nd) ==
    /\ Dispatch /\ Instr \in {OP_GT, OP_LT, OP_LTE, OP_GTE, OP_SUBTRACT, OP_MULTIPLY}
    /\ LET b == peek(vm, 0, nd.g)
           a == peek(vm, 1, nd.g)
           r == CASE Instr = OP_GT -> BOOL_VAL(a.as > b.as)
                  [] Instr = OP_LT -> BOOL_VAL(a.as < b.as)
                  [] Instr = OP_LTE -> BOOL_VAL(a.as <= b.as)
                  [] Instr = OP_GTE -> BOOL_VAL(a.as >= b.as)
                  [] Instr = OP_SUBTRACT -> NUMBER_VAL(a.as - b.as)
                  [] Instr = OP_MULTIPLY -> NUMBER_VAL(a.as * b.as)
       IN IF ~IS_NUMBER(b) \/ ~IS_NUMBER(a)
          THEN Return(runtimeError(Read(0), "Operands must be numbers.", nd), "RUNTIME_ERROR")
          ELSE Continue(push(pop(pop(Read(0))), r))

\* OP_ADD that concatenates two strings only
OpAddStrict(nd) ==
    /\ Dispatch /\ Instr = OP_ADD
    /\ LET b == peek(vm, 0, nd.g)
           a == peek(vm, 1, nd.g)
       IN IF IS_STRING(vm, b) /\ IS_STRING(vm, a)
          THEN Continue(concatenate(Read(0), nd.g))
          ELSE IF IS_NUMBER(b) /\ IS_NUMBER(a)
               THEN Continue(push(pop(pop(Read(0))), NUMBER_VAL(a.as + b.as)))
               ELSE Return(runtimeError(Read(0), "Operands must be two numbers or two strings.", nd),
                           "RUNTIME_ERROR")

OpAdd(nd) ==
    /\ Dispatch /\ Instr = OP_ADD
    /\ LET b == peek(vm, 0, nd.g)
           a == peek(vm, 1, nd.g)
       IN IF IS_STRING(vm, b) \/ IS_STRING(vm, a)
          THEN IF Readable(a) /\ Readable(b) THEN Continue(concatenate(Read(0), nd.g))
               ELSE Undefined
          ELSE IF IS_NUMBER(b) /\ IS_NUMBER(a)
               THEN Continue(push(pop(pop(Read(0))), NUMBER_VAL(a.as + b.as)))
               ELSE Return(runtimeError(Read(0), "Operands must be two numbers or two strings.", nd),
                           "RUNTIME_ERROR")

OpDefineGlobal(nd) ==
    /\ Dispatch /\ Instr \in {OP_DEFINE_GLOBAL, OP_DEFINE_GLOBAL_LONG}
    /\ LET long == OP_DEFINE_GLOBAL_LONG
           v == Read(Width(long))
       IN IF ~StringOk(long) THEN Undefined
          ELSE Continue(pop([v EXCEPT !.globals = tableSet(@, READ_STRING(long), peek(v, 0, nd.g))]))

OpGetGlobal(nd) ==
    /\ Dispatch /\ Instr \in {OP_GET_GLOBAL, OP_GET_GLOBAL_LONG}
    /\ LET long == OP_GET_GLOBAL_LONG
           v == Read(Width(long))
           name == READ_STRING(long)
       IN IF ~StringOk(long) THEN Undefined
          ELSE IF ~tableHas(v.globals, name)
               THEN Return(runtimeError(v, "Undefined variable '" \o v.heap[name].chars \o "'.", nd),
                           "RUNTIME_ERROR")
               ELSE Continue(push(v, tableGet(v.globals, name)))

\* an OP_SET_GLOBAL that leaves the new entry in the table when it fails
OpSetGlobalKeeps(nd) ==
    /\ Dispatch /\ Instr \in {OP_SET_GLOBAL, OP_SET_GLOBAL_LONG}
    /\ LET long == OP_SET_GLOBAL_LONG
           v == Read(Width(long))
           name == READ_STRING(long)
           isNewKey == ~tableHas(v.globals, name)
           v1 == [v EXCEPT !.globals = tableSet(@, name, peek(v, 0, nd.g))]
       IN IF ~StringOk(long) THEN Undefined
          ELSE IF isNewKey
               THEN Return(runtimeError(v1,
                                        "Undefined variable '" \o v.heap[name].chars \o "'.", nd),
                           "RUNTIME_ERROR")
               ELSE Continue(v1)

OpSetGlobal(nd) ==
    /\ Dispatch /\ Instr \in {OP_SET_GLOBAL, OP_SET_GLOBAL_LONG}
    /\ LET long == OP_SET_GLOBAL_LONG
           v == Read(Width(long))
           name == READ_STRING(long)
           isNewKey == ~tableHas(v.globals, name)
           v1 == [v EXCEPT !.globals = tableSet(@, name, peek(v, 0, nd.g))]
       IN IF ~StringOk(long) THEN Undefined
          ELSE IF isNewKey
               THEN Return(runtimeError([v1 EXCEPT !.globals = tableDelete(@, name)],
                                        "Undefined variable '" \o v.heap[name].chars \o "'.", nd),
                           "RUNTIME_ERROR")
               ELSE Continue(v1)

OpGetLocal(nd) ==
    /\ Dispatch /\ Instr = OP_GET_LOCAL
    /\ LET v == Read(1)
       IN Continue(push(v, ReadAt(v, v.frames[frame].slots + Byte(1), nd.g)))

OpSetLocal(nd) ==
    /\ Dispatch /\ Instr = OP_SET_LOCAL
    /\ LET v == Read(1)
       IN Continue(WriteAt(v, v.frames[frame].slots + Byte(1), peek(v, 0, nd.g)))

\* frame->closure->upvalues[slot], 0 when the slot holds no upvalue
FrameUpvalue(slot) ==
    LET ups == vm.heap[vm.frames[frame].closure].upvalues
    IN IF slot + 1 <= Len(ups) THEN ups[slot + 1] ELSE 0

OpGetUpvalue(nd) ==
    /\ Dispatch /\ Instr = OP_GET_UPVALUE
    /\ LET u == FrameUpvalue(Byte(1))
           v == Read(1)
       IN IF u = 0 THEN Undefined
          ELSE Continue(push(v, IF v.heap[u].isClosed THEN v.heap[u].closed
                                ELSE ReadAt(v, v.heap[u].location, nd.g)))

OpSetUpvalue(nd) ==
    /\ Dispatch /\ Instr = OP_SET_UPVALUE
    /\ LET u == FrameUpvalue(Byte(1))
           v == Read(1)
       IN IF u = 0 THEN Undefined
          ELSE Continue(IF v.heap[u].isClosed THEN [v EXCEPT !.heap[u].closed = peek(v, 0, nd.g)]
                        ELSE WriteAt(v, v.heap[u].location, peek(v, 0, nd.g)))

OpGetProperty(nd) ==
    /\ Dispatch /\ Instr \in {OP_GET_PROPERTY, OP_GET_PROPERTY_LONG}
    /\ LET long == OP_GET_PROPERTY_LONG
           r == opGetProperty(Read(Width(long)), READ_STRING(long), nd)
       IN IF ~StringOk(long) THEN Undefined
          ELSE IF r.ret THEN Return(r.vm, "RUNTIME_ERROR")
               ELSE Continue(r.vm)

OpSetProperty(nd) ==
    /\ Dispatch /\ Instr \in {OP_SET_PROPERTY, OP_SET_PROPERTY_LONG}
    /\ LET long == OP_SET_PROPERTY_LONG
           v == Read(Width(long))
           instance == peek(vm, 1, nd.g)
           value == peek(vm, 0, nd.g)
           v1 == [v EXCEPT !.heap[instance.as].fields = tableSet(@, READ_STRING(long), value)]
       IN IF ~IS_INSTANCE(vm, instance)
          THEN Return(runtimeError(Read(0), "Only instances have fields.", nd), "RUNTIME_ERROR")
          ELSE IF ~StringOk(long) THEN Undefined
               ELSE Continue(push(pop(pop(v1)), value))

OpGetSuper(nd) ==
    /\ Dispatch /\ Instr \in {OP_GET_SUPER, OP_GET_SUPER_LONG}
    /\ LET long == OP_GET_SUPER_LONG
           superclass == peek(vm, 0, nd.g)
           r == bindMethod(pop(Read(Width(long))), superclass.as, READ_STRING(long), nd)
       IN IF ~StringOk(long) \/ ~Ref(superclass, "class") THEN Undefined
          ELSE IF ~r.ret THEN Return(r.vm, "RUNTIME_ERROR")
               ELSE Continue(r.vm)

OpSuperInvoke(nd) ==
    /\ Dispatch /\ Instr \in {OP_SUPER_INVOKE, OP_SUPER_INVOKE_LONG}
    /\ LET long == OP_SUPER_INVOKE_LONG
           argCount == Byte(1 + Width(long))
           superclass == peek(vm, 0, nd.g)
           r == invokeFromClass(pop(Read(Width(long) + 1)), superclass.as, READ_STRING(long),
                                argCount, nd)
       IN IF ~StringOk(long) \/ ~Ref(superclass, "class") THEN Undefined
          ELSE IF ~r.ok THEN Return(r.vm, "RUNTIME_ERROR")
               ELSE Reframe(r.vm)

OpJump(nd) ==
    /\ Dispatch /\ Instr = OP_JUMP
    /\ Continue([vm EXCEPT !.frames[frame].ip = @ + 3 + Short(1)])

OpJumpBackwards(nd) ==
    /\ Dispatch /\ Instr = OP_JUMP_BACKWARDS
    /\ Continue([vm EXCEPT !.frames[frame].ip = @ + 3 - Short(1)])

OpJumpIfFalse(nd) ==
    /\ Dispatch /\ Instr = OP_JUMP_IF_FALSE
    /\ Continue([vm EXCEPT !.frames[frame].ip =
                     IF isFalsey(vm, peek(vm, 0, nd.g)) THEN @ + 3 + Short(1) ELSE @ + 3])

OpJumpIfTrue(nd) ==
    /\ Dispatch /\ Instr = OP_JUMP_IF_TRUE
    /\ Continue([vm EXCEPT !.frames[frame].ip =
                     IF ~isFalsey(vm, peek(vm, 0, nd.g)) THEN @ + 3 + Short(1) ELSE @ + 3])

OpNot(nd) ==
    /\ Dispatch /\ Instr = OP_NOT
    /\ Continue(push(pop(Read(0)), BOOL_VAL(isFalsey(vm, peek(vm, 0, nd.g)))))

OpCall(nd) ==
    /\ Dispatch /\ Instr = OP_CALL
    /\ LET argCount == Byte(1)
           callee == peek(vm, argCount, nd.g)
           r == callValue(Read(1), callee, argCount, nd)
       IN IF ~Readable(callee) THEN Undefined
          ELSE IF ~r.ok THEN Return(r.vm, "RUNTIME_ERROR")
               ELSE Reframe(r.vm)

OpInvoke(nd) ==
    /\ Dispatch /\ Instr \in {OP_INVOKE, OP_INVOKE_LONG}
    /\ LET long == OP_INVOKE_LONG
           argCount == Byte(1 + Width(long))
           r == invoke(Read(Width(long) + 1), READ_STRING(long), argCount, nd)
       IN IF ~StringOk(long) \/ ~Readable(peek(vm, argCount, nd.g)) THEN Undefined
          ELSE IF ~r.ok THEN Return(r.vm, "RUNTIME_ERROR")
               ELSE Reframe(r.vm)

OpClosure(nd) ==
    /\ Dispatch /\ Instr \in {OP_CLOSURE, OP_CLOSURE_LONG}
    /\ LET long == OP_CLOSURE_LONG
           v == Read(Width(long))
           closure == NewRef(v)
       IN IF ~ConstOk(long) \/ ~Ref(READ_CONSTANT(long), "function") THEN Undefined
          ELSE Continue(opClosure(newClosure(v, READ_CONSTANT(long).as), closure, frame))

OpCloseUpvalue(nd) ==
    /\ Dispatch /\ Instr = OP_CLOSE_UPVALUE
    /\ Continue(pop(closeUpvalues(Read(0), vm.stackTop - 1, nd.g)))

\* the common part of OP_RETURN and OP_RETURN_NIL once the result is known
ReturnFrom(v, value, nd) ==
    LET v1 == closeUpvalues(v, v.frames[frame].slots, nd.g)
        v2 == [v1 EXCEPT !.frameCount = @ - 1]
    IN IF v2.frameCount = 0 THEN Return(pop(v2), "OK")
       ELSE Reframe(push([v2 EXCEPT !.stackTop = v.frames[frame].slots], value))

OpReturn(nd) ==
    /\ Dispatch /\ Instr = OP_RETURN
    /\ ReturnFrom(pop(Read(0)), peek(vm, 0, nd.g), nd)

OpReturnNil(nd) ==
    /\ Dispatch /\ Instr = OP_RETURN_NIL
    /\ ReturnFrom(Read(0), NIL_VAL, nd)

OpClass(nd) ==
    /\ Dispatch /\ Instr \in {OP_CLASS, OP_CLASS_LONG}
    /\ LET long == OP_CLASS_LONG
           v == Read(Width(long))
       IN IF ~StringOk(long) THEN Undefined
          ELSE Continue(push(newClass(v, READ_STRING(long)), OBJ_VAL(NewRef(v))))

OpInherit(nd) ==
    /\ Dispatch /\ Instr = OP_INHERIT
    /\ LET superclass == peek(vm, 1, nd.g)
           subclass == peek(vm, 0, nd.g)
           v == Read(0)
       IN IF ~IS_CLASS(vm, superclass)
          THEN Return(runtimeError(v, "Superclass must be a class.", nd), "RUNTIME_ERROR")
          ELSE IF ~Ref(subclass, "class") THEN Undefined
               ELSE Continue(pop([v EXCEPT !.heap[subclass.as].methods =
                                      tableAddAll(v.heap[superclass.as].methods, @)]))

OpMethod(nd) ==
    /\ Dispatch /\ Instr \in {OP_METHOD, OP_METHOD_LONG}
    /\ LET long == OP_METHOD_LONG
       IN IF ~StringOk(long) \/ ~Ref(peek(vm, 1, nd.g), "class") THEN Undefined
          ELSE Continue(defineMethod(Read(Width(long)), READ_STRING(long), nd.g))

OpPrint(nd) ==
    /\ Dispatch /\ Instr = OP_PRINT
    /\ LET value == peek(vm, 0, nd.g)
       IN IF ~Readable(value) THEN Undefined
          ELSE Continue(printValue(pop(Read(0)), value))

OpPop(nd) ==
    /\ Dispatch /\ Instr = OP_POP
    /\ Continue(pop(Read(0)))

\* the opcodes run()'s switch has no case for, and the bytes that are no opcode
NoCase == {OP_SUBSCRIPT, OP_SUBSCRIPT_ASSIGN, OP_NEW_ARRAY} \cup ((OP_POP + 1)..UINT8_MAX)

\* the switch matches no case: the byte is skipped and the loop reads the next one
OpNoCase(nd) ==
    /\ Dispatch /\ Instr \in NoCase
    /\ Continue(Read(0))

\* the process after undefined behaviour: an access outside the stack buffer
\* happened, or run() reads its frame or its next instruction from memory that
\* holds neither
Crash ==
    /\ pc # "undefined"
    /\ vm.ub \/ (pc = "running" /\ ~Dispatch)
    /\ Undefined

Next ==
    \/ Crash
    \/ DefineNative
    \/ \E nd \in Choices :
          \/ Interpret(nd)
          \/ OpConstant(nd) \/ OpByteNum(nd) \/ OpLiteral(nd) \/ OpEq(nd) \/ OpBinary(nd)
          \/ OpAdd(nd) \/ OpDefineGlobal(nd) \/ OpGetGlobal(nd) \/ OpSetGlobal(nd)
          \/ OpGetLocal(nd) \/ OpSetLocal(nd) \/ OpGetUpvalue(nd) \/ OpSetUpvalue(nd)
          \/ OpGetProperty(nd) \/ OpSetProperty(nd) \/ OpGetSuper(nd) \/ OpSuperInvoke(nd)
          \/ OpJump(nd) \/ OpJumpBackwards(nd) \/ OpJumpIfFalse(nd) \/ OpJumpIfTrue(nd)
          \/ OpNot(nd) \/ OpCall(nd)
          \/ OpInvoke(nd) \/ OpClosure(nd) \/ OpCloseUpvalue(nd) \/ OpReturn(nd)
          \/ OpReturnNil(nd) \/ OpClass(nd) \/ OpInherit(nd) \/ OpMethod(nd) \/ OpPrint(nd)
          \/ OpPop(nd) \/ OpNoCase(nd)

Spec == Init /\ [][Next]_vars


\* ------------------------------------------ newArray() called by a C caller
\* the array objects of the heap
Arrays == {r \in 1..Len(vm.heap) : vm.heap[r].type = "array"}

\* newArray(count) up to the allocation of the element storage
NewArrayAllocate(count) ==
    /\ pc = "idle" /\ calls = 0
    /\ Cardinality(Arrays) < MaxArrays
    /\ vm' = newArrayAllocating(vm, count)
    /\ pc' = "newArray"
    /\ UNCHANGED <<frame, result, calls, src>>

\* the rest of newArray(count)
NewArrayGrow ==
    /\ pc = "newArray"
    /\ vm' = newArrayGrown(vm)
    /\ pc' = "idle"
    /\ UNCHANGED <<frame, result, calls, src>>

NextArray ==
    \/ \E count \in 0..MaxCount : NewArrayAllocate(count)
    \/ NewArrayGrow

SpecArray == Init /\ [][NextArray]_vars

\* ---------------------------------------------------------------- properties
\* interpret() has returned r
Returned(r) == pc = "idle" /\ calls > 0 /\ result = r
\* the family of the source the last interpret() call was given
Family == IF src = 0 THEN "" ELSE Sources[src].fam

\* C1: when interpret() returns INTERPRET_OK the value stack is empty and no
\* frame is left, also for programs whose loops ran break or continue
StackEmptyOnOk == Returned("OK") => (vm.stackTop = vm.stack /\ vm.frameCount = 0)

\* C2: when interpret() returns INTERPRET_RUNTIME_ERROR the value stack is
\* empty (stackTop at the base, not below), no frame is left and no upvalue is open
StackResetOnRuntimeError ==
    Returned("RUNTIME_ERROR") =>
        (vm.stackTop = vm.stack /\ vm.frameCount = 0 /\ vm.openUpvalues = 0)

\* C3: once a runtime error was reported in run(), the dispatch loop reads no
\* further instruction
NoDispatchAfterRuntimeError == ~(Dispatch /\ vm.err # <<>>)

\* C4: interpret() returns INTERPRET_RUNTIME_ERROR only after a runtime error
\* message was reported during that call
RuntimeErrorIsReported == Returned("RUNTIME_ERROR") => vm.err # <<>>

\* the closures a later interpret() call can name: those held by globals
GlobalClosures ==
    {vm.globals[k].as : k \in {x \in DOMAIN vm.globals : IsObjType(vm, vm.globals[x], "closure")}}
\* upvalue u is closed or points at a live slot of the current stack buffer
UpvalueValid(u) ==
    vm.heap[u].isClosed
        \/ (vm.heap[u].location >= vm.stack /\ vm.heap[u].location < vm.stackTop)

\* C5: after interpret() returned INTERPRET_RUNTIME_ERROR every upvalue of a
\* closure that is still reachable is closed or points at a live stack slot
UpvaluesValidAfterRuntimeError ==
    Returned("RUNTIME_ERROR") =>
        \A closure \in GlobalClosures :
            \A i \in 1..Len(vm.heap[closure].upvalues) :
                vm.heap[closure].upvalues[i] # 0 => UpvalueValid(vm.heap[closure].upvalues[i])

\* an interpret() call whose compilation reported an error
CompileFailed == calls' = calls + 1 /\ vm'.err # <<>>
\* C6: a call of interpret() whose compilation reports an error returns
\* INTERPRET_COMPILE_ERROR without running anything: nothing is printed and the
\* globals, the value stack and the frame count are what they were
CompileErrorRunsNothing ==
    [][CompileFailed =>
          /\ pc' = "idle" /\ result' = "COMPILE_ERROR"
          /\ vm'.out = <<>>
          /\ vm'.globals = vm.globals
          /\ vm'.stack = vm.stack /\ vm'.stackTop = vm.stackTop
          /\ LiveStack(vm') = LiveStack(vm)
          /\ vm'.frameCount = vm.frameCount /\ vm'.frames = vm.frames]_vars
\* a compile error was returned on a VM whose globals an earlier call had
\* defined, for a source whose first statements compile
CompileErrorReturned ==
    /\ Returned("COMPILE_ERROR") /\ calls = 2 /\ Family = "cerror"
    /\ vm.err # <<>> /\ vm.frameCount = 0
    /\ \E k \in DOMAIN vm.globals : vm.globals[k] = NUMBER_VAL(2)

\* C7: closures that captured one local share one cell once the local's block
\* or frame has ended: the cell starts with the value the slot had when it was
\* closed, and a value set through one closure is the value got through the other
ClosedUpvalueShared ==
    (pc = "idle" /\ Family = "share") => (result = "OK" /\ vm.out = Sources[src].expect)
\* a program of the family has run to its end: its two closures hold the same
\* closed upvalue, whose value was set through one and printed through the other
SharedCellObserved ==
    /\ Returned("OK") /\ Family = "share" /\ Len(vm.out) = 3
    /\ \E f, g \in GlobalClosures :
          /\ f # g
          /\ Len(vm.heap[f].upvalues) = 1 /\ vm.heap[f].upvalues = vm.heap[g].upvalues
          /\ vm.heap[vm.heap[f].upvalues[1]].isClosed
          /\ stringifyValue(vm, vm.heap[vm.heap[f].upvalues[1]].closed) = vm.out[3]

\* vm.openUpvalues as the sequence of upvalues its next pointers link (at most n)
RECURSIVE openList(_, _, _)
openList(v, upvalue, n) ==
    IF upvalue = 0 \/ n = 0 THEN <<>>
    ELSE <<upvalue>> \o openList(v, v.heap[upvalue].next, n - 1)
OpenList == openList(vm, vm.openUpvalues, Len(vm.heap))

\* C8: the open-upvalue list is strictly descending by slot address (so no
\* slot has two upvalues on it) and every upvalue on it is open
OpenUpvaluesDescending ==
    \A i \in 1..Len(OpenList) :
        /\ ~vm.heap[OpenList[i]].isClosed
        /\ i < Len(OpenList) =>
              vm.heap[OpenList[i]].location > vm.heap[OpenList[i + 1]].location
\* three slots of one frame are captured, the last one between the other two
ThreeOpenUpvalues ==
    /\ Len(OpenList) = 3
    /\ vm.heap[OpenList[2]].next = OpenList[3]
    /\ OpenList[2] > OpenList[1] /\ OpenList[2] > OpenList[3]

\* C9: break leaves the loop: a loop that prints i and breaks at i = 1 prints
\* 0 and 1 and nothing more, as a while loop and as a for loop
BreakLeavesLoop == (pc = "idle" /\ Family = "break") => vm.out = Sources[src].expect

\* C10: statements leave the stack depth as they found it, plus the locals they
\* declare: where a print statement of the loop programs stands, the frame
\* holds its slot 0, the locals in scope (the number the statement prints) and
\* the operand
StatementsKeepDepth ==
    (Dispatch /\ Instr = OP_PRINT /\ Family = "loop") =>
        vm.stackTop - vm.frames[frame].slots - 2 = peek(vm, 0, NIL_VAL).as


\* the text an operand of ADD contributes: a string's content, and what
\* stringifyValue prints for any other value
AddText(v, x) == IF IS_STRING(v, x) THEN Content(v, x.as) ELSE stringifyValue(v, x)
\* run() is about to execute ADD on two operands of the live stack
AddStep == Dispatch /\ Instr = OP_ADD /\ ~vm.ub /\ vm.stackTop - vm.stack >= 2
\* the values under the two operands stay as they are
AddKeepsRest ==
    /\ vm'.stackTop = vm.stackTop - 1
    /\ \A i \in 1..(vm.stackTop - vm.stack - 2) : LiveStack(vm')[i] = LiveStack(vm)[i]
\* the top of the stack after the step is the interned string with that content
AddGaveString(content) ==
    /\ IS_STRING(vm', peek(vm', 0, NIL_VAL))
    /\ Content(vm', peek(vm', 0, NIL_VAL).as) = content
    /\ \A s \in DOMAIN vm'.strings :
          Content(vm', s) = content <=> s = peek(vm', 0, NIL_VAL).as
AddOutcome(a, b) ==
    IF IS_STRING(vm, a) \/ IS_STRING(vm, b)
    THEN pc' = "running" /\ AddKeepsRest /\ AddGaveString(AddText(vm, a) \o AddText(vm, b))
    ELSE IF IS_NUMBER(a) /\ IS_NUMBER(b)
         THEN pc' = "running" /\ AddKeepsRest /\ peek(vm', 0, NIL_VAL) = NUMBER_VAL(a.as + b.as)
         ELSE /\ pc' = "idle" /\ result' = "RUNTIME_ERROR"
              /\ Len(vm'.err) = Len(vm.err) + 1
              /\ vm'.err[Len(vm'.err)].msg = "Operands must be two numbers or two strings."
\* C11: ADD with a string among its two operands replaces them by the interned
\* concatenation of their string forms, left then right; with two numbers it
\* replaces them by their sum; in every other case it raises the runtime error
AddConcatenatesOrSums ==
    [][AddStep => AddOutcome(peek(vm, 1, NIL_VAL), peek(vm, 0, NIL_VAL))]_vars
\* programs of the family have printed a concatenation that converted a
\* number on its right and one that converted nil on its left
AddConverted ==
    /\ Returned("OK") /\ Family = "add" /\ vm.out \in {<<"a1">>, <<"nilx">>, <<"3x12">>}
    /\ \E s \in DOMAIN vm.strings : Content(vm, s) = vm.out[1]

\* C12 as stated: print 1 + "x"; prints nothing and ends with the runtime
\* error "Operands must be two numbers or two strings."
NumberPlusStringIsError ==
    (pc = "idle" /\ Family = "addmixed") =>
        /\ result = "RUNTIME_ERROR" /\ vm.out = <<>>
        /\ vm.err # <<>> /\ vm.err[1].msg = "Operands must be two numbers or two strings."
\* C12 as the code has it: print 1 + "x"; prints 1x, reports no error and
\* interpret returns INTERPRET_OK
NumberPlusStringConcatenates ==
    (pc = "idle" /\ Family = "addmixed") =>
        (result = "OK" /\ vm.out = <<"1x">> /\ vm.err = <<>>)
\* print 1 + "x"; has run to its end and the string 1x is interned
NumberPlusStringPrinted ==
    /\ Returned("OK") /\ Family = "addmixed" /\ Len(vm.out) = 1
    /\ \E s \in DOMAIN vm.strings : Content(vm, s) = "1x" /\ vm.out[1] = vm.heap[s].chars

\* the value of the global variable of that name (nil when there is none)
Global(name) ==
    IF \E k \in DOMAIN vm.globals : Content(vm, k) = name
    THEN vm.globals[CHOOSE k \in DOMAIN vm.globals : Content(vm, k) = name]
    ELSE NIL_VAL

\* C13: for an instance of class B < A, looking up or invoking m gives B's own
\* m when B's body defines it and otherwise the m that A held when B was
\* declared; likewise for init when B is called
SubclassMethodResolution ==
    (pc = "idle" /\ Family = "inherit") => (result = "OK" /\ vm.out = Sources[src].expect)
\* the program that declares A again after B has ended: B's m has run and
\* printed 1, and it is not the m of the class now named A
InheritedMethodRan ==
    /\ Returned("OK") /\ Family = "inherit" /\ vm.out = <<"1">>
    /\ IS_CLASS(vm, Global("A")) /\ IS_CLASS(vm, Global("B"))
    /\ \E k \in DOMAIN vm.heap[Global("B").as].methods :
          /\ Content(vm, k) = "m"
          /\ tableHas(vm.heap[Global("A").as].methods, k)
          /\ vm.heap[Global("B").as].methods[k] # vm.heap[Global("A").as].methods[k]

\* run() is about to define the global p of a program that calls the class P
DefinesP ==
    /\ Dispatch /\ Family = "construct" /\ Instr = OP_DEFINE_GLOBAL
    /\ StringOk(OP_DEFINE_GLOBAL_LONG) /\ Content(vm, READ_STRING(OP_DEFINE_GLOBAL_LONG)) = "p"
\* C14: a successful call of a class leaves, in place of the callee and the
\* arguments, an instance of that class, also after an init that ends
\* normally or runs a bare return; a class without init called with an
\* argument is a runtime error
ClassCallGivesInstance ==
    /\ DefinesP =>
          /\ vm.stackTop = vm.frames[frame].slots + 2
          /\ IS_INSTANCE(vm, peek(vm, 0, NIL_VAL))
          /\ OBJ_VAL(vm.heap[peek(vm, 0, NIL_VAL).as].klass) = Global("P")
    /\ (pc = "idle" /\ Family = "construct") => (result = "OK" /\ vm.out = Sources[src].expect)
    /\ (pc = "idle" /\ Family = "constructerror") =>
          /\ result = "RUNTIME_ERROR" /\ Len(vm.err) = 1
          /\ vm.err[1].msg = "Expected 0 arguments to constructor but got 1."
\* the call P(3) has returned from an init that ran a bare return after it
\* had set the field
InitReturnedInstance ==
    /\ DefinesP /\ IS_INSTANCE(vm, peek(vm, 0, NIL_VAL))
    /\ \E k \in DOMAIN vm.heap[peek(vm, 0, NIL_VAL).as].fields :
          vm.heap[peek(vm, 0, NIL_VAL).as].fields[k] = NUMBER_VAL(3)
    /\ \E i \in 1..Len(vm.heap) :
          /\ vm.heap[i].type = "function" /\ vm.heap[i].name # 0
          /\ Content(vm, vm.heap[i].name) = "init"
          /\ Len(vm.heap[i].code) > 10

\* run() is about to execute OP_GET_SUPER: the superclass is on top of the
\* stack and this is below it
SuperGetStep ==
    /\ Dispatch /\ Instr \in {OP_GET_SUPER, OP_GET_SUPER_LONG}
    /\ StringOk(OP_GET_SUPER_LONG) /\ Ref(peek(vm, 0, NIL_VAL), "class")
SuperHasMethod ==
    tableHas(vm.heap[peek(vm, 0, NIL_VAL).as].methods, READ_STRING(OP_GET_SUPER_LONG))
\* the state after the step has, in the place of this, a bound method of this
\* and of the superclass's method, and run() goes on
SuperBound ==
    /\ pc' = "running" /\ vm'.stackTop = vm.stackTop - 1
    /\ IsObjType(vm', peek(vm', 0, NIL_VAL), "bound_method")
    /\ vm'.heap[peek(vm', 0, NIL_VAL).as].reciever = peek(vm, 1, NIL_VAL)
    /\ vm'.heap[peek(vm', 0, NIL_VAL).as].method =
           tableGet(vm.heap[peek(vm, 0, NIL_VAL).as].methods, READ_STRING(OP_GET_SUPER_LONG)).as
\* C15: super.name that is not called replaces this by the method of the
\* superclass bound to this and execution goes on; when the superclass has
\* no such method it is a runtime error and interpretation stops
SuperGetBindsOrFails ==
    [][SuperGetStep =>
         IF SuperHasMethod THEN SuperBound
         ELSE pc' = "idle" /\ result' = "RUNTIME_ERROR" /\ Len(vm'.err) = 1]_vars

\* run() is about to execute OP_INVOKE: the receiver is below the arguments
InvokeStep ==
    /\ Dispatch /\ Instr \in {OP_INVOKE, OP_INVOKE_LONG} /\ StringOk(OP_INVOKE_LONG)
    /\ Readable(peek(vm, Byte(1 + Width(OP_INVOKE_LONG)), NIL_VAL))
InvokeName == READ_STRING(OP_INVOKE_LONG)
InvokeArgs == Byte(1 + Width(OP_INVOKE_LONG))
\* the arguments of the OP_INVOKE pushed again, in order, onto v
RECURSIVE pushArguments(_, _)
pushArguments(v, i) ==
    IF i = 0 THEN v ELSE pushArguments(push(v, peek(vm, i - 1, NIL_VAL)), i - 1)
\* OP_GET_PROPERTY on the receiver alone
GotProperty(nd) == opGetProperty([vm EXCEPT !.stackTop = @ - InvokeArgs], InvokeName, nd)
\* what OP_GET_PROPERTY, the arguments and OP_CALL make of the state
GetThenCall(nd) ==
    IF GotProperty(nd).ret THEN [vm |-> GotProperty(nd).vm, ok |-> FALSE]
    ELSE callValue(pushArguments(GotProperty(nd).vm, InvokeArgs),
                   peek(pushArguments(GotProperty(nd).vm, InvokeArgs), InvokeArgs, nd.g),
                   InvokeArgs, nd)
\* the two outcomes agree: both fail, with the same messages when the receiver
\* is an instance, or both succeed with the same frames over the same stack
SameOutcome(a, b) ==
    /\ a.ok = b.ok
    /\ a.ok => /\ a.vm.frameCount = b.vm.frameCount
               /\ SubSeq(a.vm.frames, 1, a.vm.frameCount) = SubSeq(b.vm.frames, 1, b.vm.frameCount)
               /\ LiveStack(a.vm) = LiveStack(b.vm)
               /\ a.vm.heap[a.vm.frames[a.vm.frameCount].closure]
                    = b.vm.heap[b.vm.frames[b.vm.frameCount].closure]
    /\ (~a.ok /\ IS_INSTANCE(vm, peek(vm, InvokeArgs, NIL_VAL))) => a.vm.err = b.vm.err
\* C16: OP_INVOKE name argc has the outcome of OP_GET_PROPERTY name on the
\* receiver followed by OP_CALL argc with the same arguments: the same callee
\* with the same receiver and arguments, or a runtime error in the same
\* cases; a field named like a method shadows the method in both
InvokeIsGetThenCall ==
    /\ InvokeStep =>
          \A nd \in Choices : SameOutcome(invoke(vm, InvokeName, InvokeArgs, nd), GetThenCall(nd))
    /\ (pc = "idle" /\ Family = "invoke") => (result = "OK" /\ vm.out = Sources[src].expect)
    /\ (pc = "idle" /\ Family = "invokeerror") => result = "RUNTIME_ERROR"
\* OP_INVOKE is about to run on an instance that has a field named like a
\* method of its class, and the call will succeed
InvokeShadowed ==
    /\ InvokeStep /\ IS_INSTANCE(vm, peek(vm, InvokeArgs, NIL_VAL))
    /\ tableHas(vm.heap[peek(vm, InvokeArgs, NIL_VAL).as].fields, InvokeName)
    /\ tableHas(vm.heap[vm.heap[peek(vm, InvokeArgs, NIL_VAL).as].klass].methods, InvokeName)
    /\ invoke(vm, InvokeName, InvokeArgs, [g |-> NIL_VAL, base |-> 0]).ok
    /\ InvokeArgs = 1

\* C17: an array literal evaluates to an array of its elements in source
\* order, a[i] = v changes index i alone and size(a) is the number of
\* elements: the array programs run to the end and print what the language
\* defines (139 and 3 for the program that assigns a[1] = 99)
ArrayProgramsPrint ==
    (Family = "array" /\ pc \in {"idle", "undefined"}) =>
        (pc = "idle" /\ result = "OK" /\ vm.out = Sources[src].expect)

\* the programs that write a field before they read it print the value
\* written, by either way of writing and either way of reading, and has
\* tells whether the field was written
WrittenFieldsRead ==
    (Family = "field" /\ pc \in {"idle", "undefined"}) =>
        (pc = "idle" /\ result = "OK" /\ vm.out = Sources[src].expect)
\* get of a field that was never written ends the program with a runtime
\* error
MissingFieldIsError ==
    (Family = "fieldmissing" /\ pc \in {"idle", "undefined"}) =>
        (pc = "idle" /\ result = "RUNTIME_ERROR" /\ vm.out = <<>> /\ Len(vm.err) = 1)
\* C18: after o.f = v or set(o, "f", v) both o.f and get(o, "f") yield v and
\* has(o, "f") is true; before any write has(o, "f") is false and
\* get(o, "f") is a runtime error; has with a name that is no string is
\* false without an error
FieldsHasGetSet ==
    WrittenFieldsRead /\ MissingFieldIsError

\* C19: getTypeName(v) is the interned string whose content is the name of
\* v's type (of its class, for an instance), the same object as a literal
\* that spells the name: comparing it with the literal by == prints true
TypeNameIsTheLiteral ==
    (Family = "typename" /\ pc \in {"idle", "undefined"}) =>
        (pc = "idle" /\ result = "OK" /\ vm.out = Sources[src].expect)

\* C20: toString(getTypeName(v)) is the same interned string as
\* getTypeName(v): comparing the two by == prints true
ToStringFixesTypeName ==
    (Family = "typestring" /\ pc \in {"idle", "undefined"}) =>
        (pc = "idle" /\ result = "OK" /\ vm.out = Sources[src].expect)

\* run() is about to call the embedder's native, which returns NULL_VAL and
\* reports nothing
SilentNativeStep ==
    /\ Dispatch /\ Instr = OP_CALL /\ Ref(peek(vm, Byte(1), NIL_VAL), "native")
    /\ vm.heap[peek(vm, Byte(1), NIL_VAL).as].function = "silent"
\* C21: whenever a native returns NULL_VAL without having reported an error
\* in that call, the generic error is reported and interpret returns
\* INTERPRET_RUNTIME_ERROR, in every interpret() call, also one that follows
\* a call that ended in a runtime error
SilentNativeIsReported ==
    [][SilentNativeStep =>
         /\ pc' = "idle" /\ result' = "RUNTIME_ERROR"
         /\ Len(vm'.err) = 1 /\ vm'.err[1].msg = "An error occured."]_vars

\* run() is about to execute ADD on a string and a value that is not a string
ConvertingAddStep ==
    /\ AddStep /\ Readable(peek(vm, 0, NIL_VAL)) /\ Readable(peek(vm, 1, NIL_VAL))
    /\ IS_STRING(vm, peek(vm, 0, NIL_VAL)) # IS_STRING(vm, peek(vm, 1, NIL_VAL))
\* C22: where concatenate() allocates the buffer of the result, the two
\* strings it goes on to read, the one toString made for the operand that is
\* not a string included, are reachable from the collector's roots, so that a
\* collection started by that allocation frees neither
ConcatenateReadsRooted ==
    ConvertingAddStep =>
        {concatenateOperands(Read(0), NIL_VAL).a, concatenateOperands(Read(0), NIL_VAL).b}
            \subseteq Reachable(concatenateOperands(Read(0), NIL_VAL).vm)

\* the string objects of the heap
StringObjects == {r \in 1..Len(vm.heap) : vm.heap[r].type = "string"}
\* C23: no two string objects have the same length and bytes, and every
\* string object is registered in the intern table: copyString and takeString
\* give back the interned object of that content when there is one
StringsAreInterned ==
    /\ StringObjects = DOMAIN vm.strings
    /\ \A r1, r2 \in StringObjects :
          (vm.heap[r1].length = vm.heap[r2].length /\ Content(vm, r1) = Content(vm, r2)) => r1 = r2
\* print "a" + "b" == "ab"; has printed true: takeString was handed the bytes
\* ab while the literal ab was interned, and gave that object back
InternedFound ==
    /\ Returned("OK") /\ Family = "add" /\ vm.out = <<"true">>
    /\ \E s \in StringObjects : Content(vm, s) = "ab"

\* run() is about to execute EQ or NEQ on two operands of the live stack
EqualStep == Dispatch /\ Instr \in {OP_EQ, OP_NEQ} /\ ~vm.ub /\ vm.stackTop - vm.stack >= 2
\* a and b have the same tag and are both nil, or have equal bool or number
\* components, or are the same object
SameValue(a, b) ==
    /\ a.type = b.type
    /\ \/ a.type = "nil"
       \/ a.type \in {"bool", "number"} /\ a.as = b.as
       \/ a.type = "obj" /\ a.as = b.as
\* C24: EQ replaces its two operands by true exactly when they are the same
\* value, and NEQ by the negation of that
EqualityIsSameValue ==
    [][EqualStep =>
         /\ pc' = "running" /\ vm'.stackTop = vm.stackTop - 1
         /\ peek(vm', 0, NIL_VAL) =
               BOOL_VAL((Instr = OP_EQ) = SameValue(peek(vm, 1, NIL_VAL), peek(vm, 0, NIL_VAL)))]_vars
\* the program that compares the string a with every operand has printed
\* true for a == a, false for a != a and the opposite for every other operand
EqualityPrinted ==
    /\ Returned("OK") /\ Family = "equal" /\ vm.out = Sources[src].expect
    /\ Len(vm.out) = 2 * Len(Operands)
    /\ vm.out[11] = "true" /\ vm.out[12] = "false" /\ vm.out[9] = "false" /\ vm.out[10] = "true"

\* run() is about to execute CALL on a closure
ClosureCallStep ==
    Dispatch /\ Instr = OP_CALL /\ ~vm.ub /\ Ref(peek(vm, Byte(1), NIL_VAL), "closure")
\* the arity of the function of the closure CALL is about to call
CalleeArity == vm.heap[vm.heap[peek(vm, Byte(1), NIL_VAL).as].function].arity
\* the step ends run() with that runtime error and has written no frame: the
\* back-trace lists the frames there were before the call
CallRefused(message) ==
    /\ pc' = "idle" /\ result' = "RUNTIME_ERROR"
    /\ Len(vm'.err) = Len(vm.err) + 1
    /\ vm'.err[Len(vm'.err)].msg = message
    /\ Len(vm'.err[Len(vm'.err)].trace) = vm.frameCount
    /\ vm'.frames = Read(1).frames
\* C25: frameCount never exceeds FRAMES_MAX; a closure call with an argument
\* count that is not the arity is refused with the argument-count error, one
\* made with FRAMES_MAX frames active is refused with "Stack overflow.", and
\* every other one pushes one frame
FramesBounded ==
    [][/\ vm'.frameCount <= FRAMES_MAX
       /\ ClosureCallStep =>
             IF Byte(1) # CalleeArity
             THEN CallRefused("Expected " \o ToString(CalleeArity) \o " arguments but got "
                                 \o ToString(Byte(1)))
             ELSE IF vm.frameCount = FRAMES_MAX
                  THEN CallRefused("Stack overflow.")
                  ELSE pc' = "running" /\ vm'.frameCount = vm.frameCount + 1]_vars
\* fun f() { f(); } f(); has ended with "Stack overflow." and a back-trace
\* of FRAMES_MAX frames
StackOverflowed ==
    /\ Returned("RUNTIME_ERROR") /\ Family = "overflow"
    /\ vm.err[Len(vm.err)].msg = "Stack overflow."
    /\ Len(vm.err[Len(vm.err)].trace) = FRAMES_MAX

\* the number of locals the function of a locals program declares
Declared == Len(Sources[src].decls[1].body)
\* C26: a function body that declares 256 locals (or fewer) compiles without
\* error, and one that declares a 257th is refused with "Too many local
\* variables in function."
LocalsLimit ==
    (pc = "idle" /\ Family = "locals") =>
        IF Declared <= UINT8_COUNT
        THEN result = "OK" /\ vm.err = <<>>
        ELSE /\ result = "COMPILE_ERROR" /\ vm.err # <<>>
             /\ \A i \in DOMAIN vm.err : vm.err[i].msg = "Too many local variables in function."

\* the instructions whose operand is an index of the constant pool
ShortForms ==
    {OP_CONSTANT, OP_DEFINE_GLOBAL, OP_GET_GLOBAL, OP_SET_GLOBAL, OP_GET_PROPERTY,
     OP_SET_PROPERTY, OP_GET_SUPER, OP_SUPER_INVOKE, OP_INVOKE, OP_CLOSURE, OP_CLASS, OP_METHOD}
LongForms ==
    {OP_CONSTANT_LONG, OP_DEFINE_GLOBAL_LONG, OP_GET_GLOBAL_LONG, OP_SET_GLOBAL_LONG,
     OP_GET_PROPERTY_LONG, OP_SET_PROPERTY_LONG, OP_GET_SUPER_LONG, OP_SUPER_INVOKE_LONG,
     OP_INVOKE_LONG, OP_CLOSURE_LONG, OP_CLASS_LONG, OP_METHOD_LONG}
\* run() stands in front of an instruction the compiler emitted (the array
\* programs aside: run() has no case for their instructions and takes the
\* operand bytes that follow for instructions)
Decoding == Dispatch /\ ~vm.ub /\ Family # "array"
\* C27: an instruction in its _LONG form carries an index from 256 to 65535 of
\* its function's pool and one in its short form an index of the pool below
\* 256; the programs whose 257th and later constants are named by every kind
\* of instruction print what the constants they name make them print
ConstantFormFitsIndex ==
    /\ (Decoding /\ Instr \in LongForms) =>
          (Short(1) > UINT8_MAX /\ Short(1) <= UINT16_MAX /\ Short(1) < Len(Fn.constants))
    /\ (Decoding /\ Instr \in ShortForms) =>
          (Byte(1) <= UINT8_MAX /\ Byte(1) < Len(Fn.constants))
    /\ (Family = "constants" /\ pc \in {"idle", "undefined"}) =>
          (pc = "idle" /\ result = "OK" /\ vm.out = Sources[src].expect)
\* the script with 256 globals has run to its end: its 257th constant was
\* defined, read and assigned through the _LONG forms
LongFormsRan ==
    /\ Returned("OK") /\ Family = "constants" /\ vm.out = <<"s", "56", "1", "7", "3", "8">>
    /\ Global("h") = NUMBER_VAL(56)

\* the messages of the diagnostics of the last interpret() call
Diagnostics == [i \in DOMAIN vm.err |-> vm.err[i].msg]
\* the compiler reported an error in the last interpret() call
CompileDiagnosed == calls > 0 /\ vm.err # <<>> /\ vm.err[1].trace = <<>>
ScriptFunction ==
    CHOOSE f \in 1..Len(vm.heap) :
        /\ vm.heap[f].type = "function" /\ vm.heap[f].name = 0
        /\ \A g \in (f + 1)..Len(vm.heap) : ~(vm.heap[g].type = "function" /\ vm.heap[g].name = 0)
\* the instructions that store to a variable, a property or an element
SetInstructions ==
    {OP_SET_GLOBAL, OP_SET_GLOBAL_LONG, OP_SET_LOCAL, OP_SET_UPVALUE, OP_SET_PROPERTY,
     OP_SET_PROPERTY_LONG, OP_SUBSCRIPT_ASSIGN}
BreaksCountedPerLoop ==
    (pc = "idle" /\ Family = "breaks") =>
        /\ Diagnostics = Sources[src].expect
        /\ result = IF Sources[src].expect = <<>> THEN "OK" ELSE "COMPILE_ERROR"
\* while (false) { break; while (false) { break; } } has compiled and run: a
\* loop and the loop nested in it each took one break
NestedBreaksCompiled ==
    /\ Returned("OK") /\ Family = "breaks" /\ vm.err = <<>>
    /\ Sources[src].decls = <<Never(<<BreakS, Never(<<BreakS>>)>>)>>

\* the number of operand bytes the compiler writes behind the instruction run()
\* stands in front of: emitByte none, emitBytes one, emitLongBytes two,
\* emitConstantOperator one or two, an argument count behind the name of
\* INVOKE and SUPER_INVOKE, and behind the function of CLOSURE one
\* (isLocal, index) pair for each of its upvalues
EmittedOperands ==
    CASE Instr \in {OP_CLOSURE, OP_CLOSURE_LONG} ->
           Width(OP_CLOSURE_LONG)
           + (IF StringOk(OP_CLOSURE_LONG) \/ ~ConstOk(OP_CLOSURE_LONG) THEN 0
              ELSE 2 * vm.heap[READ_CONSTANT(OP_CLOSURE_LONG).as].upvalueCount)
      [] Instr \in {OP_INVOKE, OP_SUPER_INVOKE} -> 2
      [] Instr \in {OP_INVOKE_LONG, OP_SUPER_INVOKE_LONG} -> 3
      [] Instr \in LongForms -> 2
      [] Instr \in ShortForms \cup {OP_BYTE_NUM, OP_GET_LOCAL, OP_SET_LOCAL, OP_GET_UPVALUE,
                                    OP_SET_UPVALUE, OP_CALL, OP_SUBSCRIPT,
                                    OP_SUBSCRIPT_ASSIGN, OP_NEW_ARRAY} -> 1
      [] OTHER -> 0
\* the instructions that set the instruction pointer from their operand
JumpForms == {OP_JUMP, OP_JUMP_BACKWARDS, OP_JUMP_IF_FALSE, OP_JUMP_IF_TRUE}
\* a step of run() after which the frame it decoded the instruction in is
\* still there
FrameKept ==
    /\ Dispatch /\ ~vm.ub /\ pc' = "running"
    /\ vm'.frameCount >= vm.frameCount /\ frame \in 1..Len(vm'.frames)
\* C31: every instruction that is not a jump leaves the instruction pointer
\* of its frame behind the operand bytes the compiler wrote for it, so that
\* run() decodes the next instruction at an opcode and never at an operand
HandlersConsumeOperands ==
    [][(FrameKept /\ Instr \notin JumpForms) =>
          vm'.frames[frame].ip = Ip + 1 + EmittedOperands]_vars

\* C32: the stack pointer stays inside the value-stack buffer, from its first
\* slot to one past its last, in every state
StackTopWithinBuffer ==
    vm.stack <= vm.stackTop /\ vm.stackTop <= vm.stack + STACK_MAX

\* C33: a jump that is taken sets the instruction pointer to the offset the
\* compiler meant it for: the end of the code when patchJump patched a forward
\* jump, loopStart for the JUMP_BACKWARDS of emitLoop(loopStart); a
\* conditional jump that is not taken goes on behind its operand
JumpsReachTargets ==
    [][(FrameKept /\ Decoding /\ Instr \in JumpForms) =>
          /\ Ip \in DOMAIN Fn.targets
          /\ \/ vm'.frames[frame].ip = Fn.targets[Ip]
             \/ /\ Instr \in {OP_JUMP_IF_FALSE, OP_JUMP_IF_TRUE}
                /\ vm'.frames[frame].ip = Ip + 3]_vars
\* run() stands at the OP_POP a JUMP_IF_FALSE further up was patched to reach,
\* and in front of it is the JUMP_BACKWARDS of a loop or the JUMP over an else
\* branch: this offset is reached by the taken jump only
ForwardJumpTaken ==
    /\ Decoding /\ Instr = OP_POP /\ Ip >= 3
    /\ Fn.code[Ip - 2] \in {OP_JUMP_BACKWARDS, OP_JUMP}
    /\ (Ip - 3) \in DOMAIN Fn.targets
    /\ \E j \in DOMAIN Fn.targets :
          Fn.code[j + 1] = OP_JUMP_IF_FALSE /\ Fn.targets[j] = Ip /\ j + 3 < Ip

\* C34: a and b is a when a is falsey, and then b is not evaluated, and b
\* otherwise; a or b is a when a is truthy, and then b is not evaluated, and b
\* otherwise; the statement that prints the result finds exactly that one
\* value above the script's slot
LogicShortCircuits ==
    /\ Family = "logic" => pc # "undefined"
    /\ (pc = "idle" /\ Family = "logic") => (result = "OK" /\ vm.out = Sources[src].expect)
    /\ (Dispatch /\ Family = "logic" /\ Instr = OP_PRINT) => vm.stackTop = vm.stack + 2
\* print nil and (n = 1); print n;  has printed nil and the untouched n
RightOperandSkipped ==
    Returned("OK") /\ Family = "logic" /\ vm.out = <<"nil", "u">> /\ Global("n") # NUMBER_VAL(1)

\* run() stands in front of an assignment to a global that is not defined
AssignsUndefined ==
    /\ Decoding /\ Instr \in {OP_SET_GLOBAL, OP_SET_GLOBAL_LONG}
    /\ StringOk(OP_SET_GLOBAL_LONG)
    /\ ~tableHas(vm.globals, READ_STRING(OP_SET_GLOBAL_LONG))
\* the last interpret() call was the second on its VM and was given print name;
SecondCallReads(name) ==
    /\ pc = "idle" /\ calls = 2 /\ Family = "globalsprobe"
    /\ Sources[src].decls = ReadsGlobal(name)
\* C35: an assignment to a global that was never defined ends the call with
\* the runtime error "Undefined variable" and leaves the globals as they were,
\* so that a read of the name in the next call fails as well
AssignUndefinedFails ==
    /\ [][AssignsUndefined =>
              /\ pc' = "idle" /\ result' = "RUNTIME_ERROR"
              /\ vm'.globals = vm.globals
              /\ vm'.err # <<>>
              /\ vm'.err[Len(vm'.err)].msg =
                    "Undefined variable '" \o Content(vm, READ_STRING(OP_SET_GLOBAL_LONG)) \o "'."]_vars
    /\ [](SecondCallReads("zz") =>
              (result = "RUNTIME_ERROR" /\ Diagnostics = <<"Undefined variable 'zz'.">>))
\* after  var a = 1; var b = "x"; var c = 3; zz = 2;  the next call's
\* print zz;  has failed and a, b and c are what they were
UndefinedStaysUndefined ==
    /\ SecondCallReads("zz") /\ result = "RUNTIME_ERROR"
    /\ Global("c") = NUMBER_VAL(3) /\ Global("a") = NUMBER_VAL(1)
    /\ ~\E k \in DOMAIN vm.globals : Content(vm, k) = "zz"

\* C36: !, if, while and for take nil, false, 0 and the empty string for
\* false and every other value (other numbers and strings, natives, functions,
\* classes, instances) for true, and a conditional jump leaves the stack as
\* it found it
TruthinessOfValues ==
    /\ [](Family = "truth" => pc # "undefined")
    /\ []((pc = "idle" /\ Family = "truth") => (result = "OK" /\ vm.out = Sources[src].expect))
    /\ [][(Decoding /\ Instr \in {OP_JUMP_IF_FALSE, OP_JUMP_IF_TRUE}) =>
              (pc' = "running" /\ vm'.stackTop = vm.stackTop /\ vm'.cells = vm.cells)]_vars
\* the program that tests the empty string has printed true and f and has
\* run neither loop body
EmptyStringIsFalse ==
    /\ Returned("OK") /\ Family = "truth" /\ vm.out = <<"true", "f">>
    /\ Sources[src].decls = TruthP(Tested[4]).decls

\* C37: the globals a call defined, up to the instruction at which it failed
\* if it failed, are there with their values when the next call on the same
\* VM starts and are read by it, and so are the natives initVM registered
GlobalsPersist ==
    /\ []((pc = "idle" /\ Family = "globals") =>
              /\ Global("a") = NUMBER_VAL(1)
              /\ (result = "OK" \/ Global("c") = NUMBER_VAL(3)) <=> (Global("b") # NIL_VAL)
              /\ Global("b") # NIL_VAL => Content(vm, Global("b").as) = "x"
              /\ result = IF Diagnostics = <<>> THEN "OK" ELSE "RUNTIME_ERROR")
    /\ [][calls' = calls + 1 =>
              \A k \in DOMAIN vm.globals :
                  /\ k \in DOMAIN vm'.globals /\ vm'.globals[k] = vm.globals[k]
                  /\ vm'.heap[k] = vm.heap[k]
                  /\ IS_OBJ(vm.globals[k]) => vm'.heap[vm.globals[k].as] = vm.heap[vm.globals[k].as]]_vars
    /\ [](SecondCallReads("a") => (result = "OK" /\ vm.out = <<"1">>))
    /\ [](SecondCallReads("clock") => (result = "OK" /\ vm.out = <<"<native fun>">>))
    /\ [](SecondCallReads("b") =>
              \/ result = "OK" /\ vm.out = <<"x">>
              \/ result = "RUNTIME_ERROR" /\ Diagnostics = <<"Undefined variable 'b'.">>
                    /\ Global("c") # NUMBER_VAL(3))
\* after  var a = 1; var b = "x"; var c = 3; zz = 2;  ended in a runtime
\* error, the next call's  print b;  has printed x
GlobalReadAfterFailedCall ==
    /\ SecondCallReads("b") /\ result = "OK" /\ vm.out = <<"x">>
    /\ Global("c") = NUMBER_VAL(3)

\* run() is about to read a global that is not defined, which it reports
\* through runtimeError and resetStack
FailingReadStep ==
    /\ Decoding /\ Instr \in {OP_GET_GLOBAL, OP_GET_GLOBAL_LONG}
    /\ StringOk(OP_GET_GLOBAL_LONG)
    /\ ~tableHas(vm.globals, READ_STRING(OP_GET_GLOBAL_LONG))
\* C38: where resetStack allocates the new stack buffer the roots are
\* consistent: the range from stack to stackTop, which lies in the buffer just
\* released, is empty and no call frame of the aborted run is left, so that a
\* collection started by that allocation marks neither
NoStaleRootsAtStackAllocation ==
    FailingReadStep =>
        /\ resetStackFreed(Read(Width(OP_GET_GLOBAL_LONG))).stackTop
              = resetStackFreed(Read(Width(OP_GET_GLOBAL_LONG))).stack
        /\ resetStackFreed(Read(Width(OP_GET_GLOBAL_LONG))).frameCount = 0

\* C39: where newArray allocates the element storage, the array object is
\* reachable from the collector's roots, so that a collection started by that
\* allocation does not free it, and it has the storage for the count elements
\* the collector would traverse
NewArrayIsLive ==
    pc = "newArray" =>
        /\ Len(vm.heap) \in Reachable(vm)
        /\ Len(vm.heap[Len(vm.heap)].values) = vm.heap[Len(vm.heap)].count

\* C40: outside compile() no compiler is active and no class is being
\* compiled: every function and class declaration, nested or not, with or
\* without errors, has given the chain back as it found it; the nesting
\* programs are refused or run as their text says
CompilerChainsRestored ==
    /\ vm.current = 0 /\ vm.currentClass = 0
    /\ (pc = "idle" /\ Family = "nesting") =>
          /\ Diagnostics = Sources[src].expect
          /\ result = IF Sources[src].expect = <<>> THEN "OK" ELSE "COMPILE_ERROR"
\* compile() has returned NULL for the function nested in a method of a class
\* with a superclass, and the chains are empty
NestedErrorUnwound ==
    /\ Returned("COMPILE_ERROR") /\ Family = "nesting"
    /\ Diagnostics = <<"Invalid assignment target.">>
    /\ vm.current = 0 /\ vm.currentClass = 0
====
